---- MODULE Spec2Model ----
(***************************************************************************)
(* DETorrent: the migration orchestrator (core/nexus_engine.py), the image *)
(* backend with its Mount Table (core/iso_manager.py) and the supervising  *)
(* front-end (gui/quantum_interface.py), POSIX branch (os.name != 'nt').   *)
(*                                                                         *)
(* Spec     the GUI drives the engine through OsSwitchThread objects.      *)
(* SpecIso  a caller drives IsoManager.mount_iso / unmount_iso directly.   *)
(***************************************************************************)
EXTENDS Integers, Sequences, FiniteSets, TLC

\* ---------------------------------------------------------------- bounds
\* create_system_backup calls in one behaviour, and the last clock tick
MaxBackups == 3
MaxClock == 3
\* temporary directories the detector creates in one behaviour
MaxTempDirs == 2
\* loop devices the host can attach: the mount tool cannot succeed beyond it
MaxKernelMounts == 2

\* ------------------------------------------------------------- constants
\* iso_manager.py:69  file_size < 1024 * 1024
MinIsoSize == 1048576

None == "None"

\* image files on the host, with what the file system holds for each
Paths == {"good.iso", "junk.iso", "tiny.iso"}

\* the images listed in the front-end (quantum_interface.py:316-322)
Images == {"good.iso", "junk.iso"}

\* iso_manager.py:84  f.read(2048)
BlockSize == 2048

\* b'CD001' and b'\x00\x00\x00\x00' (iso_manager.py:88, 91) as byte values
CD001 == <<67, 68, 48, 48, 49>>
FourZeros == <<0, 0, 0, 0>>

\* a file: whether the path exists, its size in bytes, its leading bytes, and
\* whether open(path, 'rb') succeeds
FileOf(path) ==
    CASE path = "good.iso" ->
             [exists |-> TRUE, size |-> 2097152, head |-> CD001, readable |-> TRUE]
      [] path = "junk.iso" ->
             [exists |-> TRUE, size |-> 2097152, head |-> <<77, 90, 144, 0, 3>>,
              readable |-> TRUE]
      [] path = "tiny.iso" ->
             [exists |-> TRUE, size |-> 4096, head |-> CD001, readable |-> TRUE]
      [] OTHER -> [exists |-> FALSE, size |-> 0, head |-> <<>>, readable |-> FALSE]

\* files a caller can hand to validate_iso_file
Sizes == {0, 4096, MinIsoSize - 1, MinIsoSize, 2097152}
Heads == {CD001, <<0, 0, 0, 0, 0>>, <<0, 0, 0, 0, 7>>, <<0, 0, 0, 7, 0>>,
          <<67, 68, 48, 48, 50>>, <<1, 67, 68, 48, 48>>, <<99, 100, 48, 48, 49>>}
Files ==
    {[exists |-> TRUE, size |-> n, head |-> h, readable |-> r] :
        n \in Sizes \ {0}, h \in Heads, r \in BOOLEAN}
    \cup {[exists |-> TRUE, size |-> 0, head |-> <<>>, readable |-> r] :
              r \in BOOLEAN}
    \cup {FileOf("missing.iso")}

Partitions == {"/dev/sdb1"}

\* OsSwitchThread objects the front-end can hold at one time
Threads == {1, 2}

VARIABLES
    \* NexusEngine
    current_operation, operation_progress,
    \* IsoManager and the host it drives
    mounted_isos,      \* Mount Table: image path -> mount point index
    dirs,              \* mount-point directories that exist
    kernel_mounts,     \* host mount stack: sequence of [mp, iso], last is topmost
    tool_run,          \* external command the latest IsoManager call launched
    lastOp, prevOp,    \* the two most recent IsoManager calls (history)
    cleanup_todo,      \* IsoManager.cleanup: the keys its loop has yet to visit
    iso_file,          \* the file a direct validate_iso_file call is given
    validation,        \* the latest direct validate_iso_file call
    mounted_tree,      \* the image tree under the detector's mount point
    os_info,           \* the latest _analyze_mounted_iso result
    os_info_before,    \* the result of the call before it
    \* BackupManager and the backup directory
    now,               \* wall clock, in ticks
    dest_exists,       \* the backup directory exists
    archives,          \* files in the backup directory: [id, ext, mtime]
    records,           \* every backup_info dict made so far, in creation order
    active_backups,    \* backup_id -> index of a record
    backup_metadata,   \* backup_id -> index of a record
    creating,          \* the create_system_backup call in progress
    lastBackup,        \* the latest BackupManager call that returned
    backend_call,      \* the latest backend operation called on its own
    command_run,       \* the latest command sequence a backend ran
    mount_entries,     \* names directly under the mount point handed to the installer
    install_call,      \* the latest direct install_from_mounted call
    \* prepare_target_os / extract_os_info
    prep_pc,           \* position of the call in progress, "idle" when none
    prep_entry,        \* which of the two was called
    prep_file,         \* the file behind the iso_path of the call
    prep_log,          \* what the call has done so far, in order
    prep_result,       \* the dict the latest call returned
    temp_dirs,         \* number of mkdtemp directories made so far
    temp_mounts,       \* detector mount points the host still has mounted
    \* one OsSwitchThread / execute_os_switch activation per thread
    pc, req, result, mount_result, calls, progLog, emitted,
    \* QuantumInterface
    current_iso_path, current_partition, preserve_data_checkbox,
    execute_btn, dialog, progress_bar, signals,
    validated          \* paths for which validate_iso_file returned valid=True

engineVars == <<current_operation, operation_progress>>
isoVars == <<mounted_isos, dirs, kernel_mounts, tool_run>>
histVars == <<lastOp, prevOp>>
teardownVars == <<cleanup_todo>>
validateVars == <<iso_file, validation>>
detectVars == <<mounted_tree, os_info, os_info_before>>
backupVars == <<now, dest_exists, archives, records, active_backups,
                backup_metadata, creating, lastBackup>>
backendVars == <<backend_call>>
commandVars == <<command_run>>
installVars == <<mount_entries, install_call>>
prepareVars == <<prep_pc, prep_entry, prep_file, prep_log, prep_result,
                 temp_dirs, temp_mounts>>
extraVars == <<commandVars, installVars, prepareVars>>
auxVars == <<teardownVars, validateVars, detectVars, backupVars, backendVars,
             extraVars>>
runVars == <<pc, req, result, mount_result, calls, progLog, emitted>>
guiVars == <<current_iso_path, current_partition, preserve_data_checkbox,
             execute_btn, dialog, progress_bar, signals, validated>>
coreVars == <<engineVars, isoVars, histVars, runVars, guiVars>>
serviceVars == <<teardownVars, validateVars, detectVars, backupVars, backendVars>>

vars == <<engineVars, isoVars, histVars, auxVars, runVars, guiVars>>

\* ------------------------------------------------------------ IsoManager

\* s[0:n] of Python: the first n elements, fewer when s is shorter
Slice(s, n) == SubSeq(s, 1, IF n < Len(s) THEN n ELSE Len(s))

\* iso_manager.py:80-95; the block read has min(size, 2048) bytes and starts
\* with f.head; a file that cannot be opened takes the except branch
verify_iso_structure(f) ==
    IF ~f.readable THEN FALSE
    ELSE LET len_header == IF f.size < BlockSize THEN f.size ELSE BlockSize
         IN  IF len_header < BlockSize THEN FALSE
             ELSE IF Slice(f.head, 5) = CD001 THEN TRUE
             ELSE IF Slice(f.head, 4) = FourZeros THEN TRUE
             ELSE FALSE

\* iso_manager.py:71-73  whether validate_iso_file gets as far as opening the
\* file (the call of _verify_iso_structure)
OpensFile(f) == f.exists /\ ~(f.size < MinIsoSize)

\* validate_iso_file that lets a file of exactly the minimum size fall short
validate_iso_file_strict(f) ==
    IF ~f.exists THEN [valid |-> FALSE, error |-> "File does not exist"]
    ELSE IF f.size <= MinIsoSize
         THEN [valid |-> FALSE, error |-> "File too small to be valid ISO"]
    ELSE IF ~verify_iso_structure(f)
         THEN [valid |-> FALSE, error |-> "Invalid ISO structure"]
    ELSE [valid |-> TRUE, error |-> None]

\* iso_manager.py:63-78
validate_iso_file(f) ==
    IF ~f.exists THEN [valid |-> FALSE, error |-> "File does not exist"]
    ELSE IF f.size < MinIsoSize
         THEN [valid |-> FALSE, error |-> "File too small to be valid ISO"]
    ELSE IF ~verify_iso_structure(f)
         THEN [valid |-> FALSE, error |-> "Invalid ISO structure"]
    ELSE [valid |-> TRUE, error |-> None]

NoOp == [op |-> None, path |-> None, outcome |-> None, success |-> FALSE,
         error |-> None, mp |-> -1, table |-> <<>>, dirs |-> {}]

MountedAt(km, mp) == {i \in 1 .. Len(km) : km[i].mp = mp}

Max(S) == CHOOSE x \in S : \A y \in S : y <= x

\* the sequence s without its i-th element
RemoveAt(s, i) == [j \in 1 .. Len(s) - 1 |-> IF j < i THEN s[j] ELSE s[j + 1]]

\* exit statuses / faults a `sudo mount -o loop` invocation can produce
MountOutcomes == {"rc0", "rc1", "raise"}

\* iso_manager.py:99  mount point name is derived from the table size
NextMountPoint(table) == Cardinality(DOMAIN table)

\* result dict of mount_iso for a tool outcome
MountResult(table, outcome) ==
    IF outcome = "rc0"
    THEN [success |-> TRUE, mount_point |-> NextMountPoint(table), error |-> None]
    ELSE [success |-> FALSE, mount_point |-> -1,
          error |-> IF outcome = "rc1" THEN "stderr" ELSE "exception"]

\* iso_manager.py:97-119
mount_iso(iso_path, outcome) ==
    LET mount_point == NextMountPoint(mounted_isos)
    IN  \* the mount tool exits 0 only while a loop device is left
        /\ outcome = "rc0" => Len(kernel_mounts) < MaxKernelMounts
        \* os.makedirs(mount_point, exist_ok=True)
        /\ dirs' = IF outcome = "raise" THEN dirs ELSE dirs \cup {mount_point}
        /\ tool_run' = IF outcome = "raise" THEN None ELSE "mount"
        /\ IF outcome = "rc0"
           THEN /\ mounted_isos' =
                      [p \in DOMAIN mounted_isos \cup {iso_path} |->
                          IF p = iso_path THEN mount_point ELSE mounted_isos[p]]
                /\ kernel_mounts' =
                      Append(kernel_mounts, [mp |-> mount_point, iso |-> iso_path])
           ELSE UNCHANGED <<mounted_isos, kernel_mounts>>

\* exit statuses of `sudo umount <mount_point>`
UnmountOutcomes == {"rc0", "rc1"}

\* result dict of unmount_iso
UnmountResult(table, iso_path, outcome) ==
    IF iso_path \notin DOMAIN table
    THEN [success |-> FALSE, error |-> "ISO not mounted"]
    ELSE IF outcome = "rc0" THEN [success |-> TRUE, error |-> None]
    ELSE [success |-> FALSE, error |-> "stderr"]

\* iso_manager.py:123-124  the lookup that precedes the tool invocation
IsMounted(table, iso_path) == iso_path \in DOMAIN table

\* unmount_iso that drops the entry and the directory whatever umount returned
unmount_iso_eager(iso_path, outcome) ==
    IF ~IsMounted(mounted_isos, iso_path)
    THEN UNCHANGED <<mounted_isos, dirs, kernel_mounts>> /\ tool_run' = None
    ELSE LET mount_point == mounted_isos[iso_path]
             at == MountedAt(kernel_mounts, mount_point)
             km == IF outcome = "rc0"
                   THEN RemoveAt(kernel_mounts, Max(at))
                   ELSE kernel_mounts
         IN  /\ outcome = "rc0" => at # {}
             /\ kernel_mounts' = km
             /\ tool_run' = "umount"
             /\ mounted_isos' =
                   [p \in DOMAIN mounted_isos \ {iso_path} |-> mounted_isos[p]]
             /\ dirs' = IF MountedAt(km, mount_point) # {}
                        THEN dirs ELSE dirs \ {mount_point}

\* iso_manager.py:121-146
unmount_iso(iso_path, outcome) ==
    IF ~IsMounted(mounted_isos, iso_path)
    THEN UNCHANGED <<mounted_isos, dirs, kernel_mounts>> /\ tool_run' = None
    ELSE LET mount_point == mounted_isos[iso_path]
             at == MountedAt(kernel_mounts, mount_point)
             km == IF outcome = "rc0"
                   THEN RemoveAt(kernel_mounts, Max(at))
                   ELSE kernel_mounts
         IN  \* umount exits 0 only when something is mounted there
             /\ outcome = "rc0" => at # {}
             /\ kernel_mounts' = km
             /\ tool_run' = "umount"
             /\ IF outcome = "rc0"
                THEN /\ mounted_isos' =
                           [p \in DOMAIN mounted_isos \ {iso_path} |-> mounted_isos[p]]
                     \* shutil.rmtree(mount_point, ignore_errors=True): a
                     \* directory that is still a mount point stays (EBUSY)
                     /\ dirs' = IF MountedAt(km, mount_point) # {}
                                THEN dirs ELSE dirs \ {mount_point}
                ELSE UNCHANGED <<mounted_isos, dirs>>

\* ------------------------------------------------------------ OsDetector
\* File names are sequences of characters, so that the substring and
\* case-folding tests of the detector are computed and not assumed.

UpperCase == <<"A", "B", "C", "D", "E", "F", "G", "H", "I", "J", "K", "L", "M", "N", "O", "P", "Q", "R", "S", "T", "U", "V", "W", "X", "Y", "Z">>
LowerCase == <<"a", "b", "c", "d", "e", "f", "g", "h", "i", "j", "k", "l", "m", "n", "o", "p", "q", "r", "s", "t", "u", "v", "w", "x", "y", "z">>

\* str.lower() on one character
LowerChar(c) ==
    IF \E i \in 1 .. Len(UpperCase) : UpperCase[i] = c
    THEN LowerCase[CHOOSE i \in 1 .. Len(UpperCase) : UpperCase[i] = c]
    ELSE c

\* str.lower()
Lower(str) == [i \in 1 .. Len(str) |-> LowerChar(str[i])]

\* Python's `sub in str`
Contains(sub, str) ==
    \E k \in 0 .. Len(str) - Len(sub) :
        \A j \in 1 .. Len(sub) : str[k + j] = sub[j]

\* the signature table with the families in the opposite order
os_signatures_reversed ==
    <<
    [os_type |-> "macos",
     patterns |-> <<<<"m", "a", "c", "o", "s">>,
                  <<"d", "a", "r", "w", "i", "n">>,
                  <<"m", "a", "c", " ", "o", "s">>>>,
     files |-> <<<<"m", "a", "c", "h", "_", "k", "e", "r", "n", "e", "l">>,
               <<"b", "o", "o", "t", ".", "e", "f", "i">>>>,
     directories |-> <<<<"S", "y", "s", "t", "e", "m">>,
                     <<"A", "p", "p", "l", "i", "c", "a", "t", "i", "o", "n", "s">>>>],
    [os_type |-> "linux",
     patterns |-> <<<<"l", "i", "n", "u", "x">>,
                  <<"u", "b", "u", "n", "t", "u">>,
                  <<"d", "e", "b", "i", "a", "n">>,
                  <<"f", "e", "d", "o", "r", "a">>,
                  <<"c", "e", "n", "t", "o", "s">>>>,
     files |-> <<<<"v", "m", "l", "i", "n", "u", "z">>,
               <<"i", "n", "i", "t", "r", "d", ".", "i", "m", "g">>,
               <<"g", "r", "u", "b", ".", "c", "f", "g">>>>,
     directories |-> <<<<"b", "o", "o", "t">>,
                     <<"e", "t", "c">>,
                     <<"u", "s", "r">>>>],
    [os_type |-> "windows",
     patterns |-> <<<<"w", "i", "n", "d", "o", "w", "s">>,
                  <<"w", "i", "n", "n", "t">>,
                  <<"w", "i", "n", "3", "2">>>>,
     files |-> <<<<"b", "o", "o", "t", "m", "g", "r">>,
               <<"n", "t", "l", "d", "r">>,
               <<"w", "i", "n", "l", "o", "a", "d", ".", "e", "x", "e">>>>,
     directories |-> <<<<"W", "i", "n", "d", "o", "w", "s">>,
                     <<"P", "r", "o", "g", "r", "a", "m", " ", "F", "i", "l", "e", "s">>>>]
    >>

\* os_detector.py:11-27, in the insertion order of the dict
os_signatures ==
    <<
    [os_type |-> "windows",
     patterns |-> <<<<"w", "i", "n", "d", "o", "w", "s">>,
                  <<"w", "i", "n", "n", "t">>,
                  <<"w", "i", "n", "3", "2">>>>,
     files |-> <<<<"b", "o", "o", "t", "m", "g", "r">>,
               <<"n", "t", "l", "d", "r">>,
               <<"w", "i", "n", "l", "o", "a", "d", ".", "e", "x", "e">>>>,
     directories |-> <<<<"W", "i", "n", "d", "o", "w", "s">>,
                     <<"P", "r", "o", "g", "r", "a", "m", " ", "F", "i", "l", "e", "s">>>>],
    [os_type |-> "linux",
     patterns |-> <<<<"l", "i", "n", "u", "x">>,
                  <<"u", "b", "u", "n", "t", "u">>,
                  <<"d", "e", "b", "i", "a", "n">>,
                  <<"f", "e", "d", "o", "r", "a">>,
                  <<"c", "e", "n", "t", "o", "s">>>>,
     files |-> <<<<"v", "m", "l", "i", "n", "u", "z">>,
               <<"i", "n", "i", "t", "r", "d", ".", "i", "m", "g">>,
               <<"g", "r", "u", "b", ".", "c", "f", "g">>>>,
     directories |-> <<<<"b", "o", "o", "t">>,
                     <<"e", "t", "c">>,
                     <<"u", "s", "r">>>>],
    [os_type |-> "macos",
     patterns |-> <<<<"m", "a", "c", "o", "s">>,
                  <<"d", "a", "r", "w", "i", "n">>,
                  <<"m", "a", "c", " ", "o", "s">>>>,
     files |-> <<<<"m", "a", "c", "h", "_", "k", "e", "r", "n", "e", "l">>,
               <<"b", "o", "o", "t", ".", "e", "f", "i">>>>,
     directories |-> <<<<"S", "y", "s", "t", "e", "m">>,
                     <<"A", "p", "p", "l", "i", "c", "a", "t", "i", "o", "n", "s">>>>]
    >>

\* entries an image tree can hold: the name, whether the entry sits directly
\* under the mount point, and whether it is a directory
Entries ==
    {[name |-> <<"B", "O", "O", "T", "M", "G", "R">>, top |-> TRUE, is_dir |-> FALSE],
     [name |-> <<"v", "m", "l", "i", "n", "u", "z", "-", "5", ".", "4">>, top |-> FALSE, is_dir |-> FALSE],
     [name |-> <<"b", "o", "o", "t", ".", "e", "f", "i">>, top |-> FALSE, is_dir |-> FALSE],
     [name |-> <<"W", "i", "n", "3", "2", "-", "L", "i", "n", "u", "x", ".", "t", "x", "t">>, top |-> FALSE, is_dir |-> FALSE],
     [name |-> <<"r", "e", "a", "d", "m", "e", ".", "t", "x", "t">>, top |-> TRUE, is_dir |-> FALSE],
     [name |-> <<"e", "t", "c">>, top |-> TRUE, is_dir |-> FALSE],
     [name |-> <<"W", "i", "n", "d", "o", "w", "s">>, top |-> TRUE, is_dir |-> TRUE],
     [name |-> <<"b", "o", "o", "t">>, top |-> TRUE, is_dir |-> TRUE],
     [name |-> <<"S", "y", "s", "t", "e", "m">>, top |-> TRUE, is_dir |-> TRUE],
     [name |-> <<"w", "i", "n", "d", "o", "w", "s">>, top |-> TRUE, is_dir |-> TRUE],
     [name |-> <<"A", "p", "p", "l", "i", "c", "a", "t", "i", "o", "n", "s">>, top |-> FALSE, is_dir |-> TRUE]}

Trees == SUBSET Entries

\* the names os.walk yields in `files`
WalkFiles(tree) == {e.name : e \in {x \in tree : ~x.is_dir}}

\* re.search(pattern, file, re.IGNORECASE) for a pattern of literal characters
re_search_ignorecase(pattern, str) ==
    \E k \in 0 .. Len(str) - Len(pattern) :
        \A j \in 1 .. Len(pattern) : LowerChar(str[k + j]) = LowerChar(pattern[j])

\* os_detector.py:313-325  (none of the patterns of os_signatures holds a
\* regex metacharacter, so re.search with IGNORECASE is a case-blind
\* substring search)
search_in_directory(tree, pattern, regex) ==
    \E file \in WalkFiles(tree) :
        IF regex
        THEN re_search_ignorecase(pattern, file)
        ELSE Contains(Lower(pattern), Lower(file))

\* os.path.exists(os.path.join(mount_point, dir_name)) (os_detector.py:305)
PathExists(tree, dir_name) == \E e \in tree : e.top /\ e.name = dir_name

\* os_detector.py:294-311
matches_signatures(tree, signatures) ==
    \/ \E i \in 1 .. Len(signatures.patterns) :
           search_in_directory(tree, signatures.patterns[i], TRUE)
    \/ \E i \in 1 .. Len(signatures.files) :
           search_in_directory(tree, signatures.files[i], FALSE)
    \/ \E i \in 1 .. Len(signatures.directories) :
           PathExists(tree, signatures.directories[i])

\* os_detector.py:274-292  the first family, in dict order, whose signatures
\* match sets the type; _extract_version_info never writes the 'type' key
analyze_mounted_iso(tree) ==
    LET matching == {i \in 1 .. Len(os_signatures) :
                        matches_signatures(tree, os_signatures[i])}
    IN  IF matching = {} THEN [type |-> "Unknown"]
        ELSE [type |-> os_signatures[CHOOSE i \in matching :
                                        \A j \in matching : i <= j].os_type]

\* ----------------------------------------------------------- NexusEngine

\* nexus_engine.py:97-101
get_operation_status ==
    [current_operation |-> current_operation, progress |-> operation_progress]

\* StageError with the installation branch carrying the message of the branch
\* above it
StageErrorCopied(stage) ==
    CASE stage = "backup" -> "Backup failed"
      [] stage = "mount" -> "ISO mount failed"
      [] stage = "partition" -> "Partition preparation failed"
      [] stage = "install" -> "Partition preparation failed"
      [] stage = "bootloader" -> "Bootloader configuration failed"

\* nexus_engine.py:57,63,69,76,82  the fixed error of each stage
StageError(stage) ==
    CASE stage = "backup" -> "Backup failed"
      [] stage = "mount" -> "ISO mount failed"
      [] stage = "partition" -> "Partition preparation failed"
      [] stage = "install" -> "Installation failed"
      [] stage = "bootloader" -> "Bootloader configuration failed"

\* ProgressAt with the last assignment storing 90
ProgressAtShort(loc) ==
    CASE loc = "set0" -> 0
      [] loc = "set20" -> 20
      [] loc = "set40" -> 40
      [] loc = "set60" -> 60
      [] loc = "set80" -> 80
      [] loc = "set100" -> 90

\* ProgressAt with the assignment after partition preparation storing 30
ProgressAtDip(loc) ==
    CASE loc = "set0" -> 0
      [] loc = "set20" -> 20
      [] loc = "set40" -> 40
      [] loc = "set60" -> 30
      [] loc = "set80" -> 80
      [] loc = "set100" -> 100

\* nexus_engine.py:52,59,65,71,78,84  the value each assignment stores
ProgressAt(loc) ==
    CASE loc = "set0" -> 0
      [] loc = "set20" -> 20
      [] loc = "set40" -> 40
      [] loc = "set60" -> 60
      [] loc = "set80" -> 80
      [] loc = "set100" -> 100

\* AfterSet with partition preparation left out of the pipeline
AfterSetSkipPartition(loc) ==
    CASE loc = "set0" -> "backup"
      [] loc = "set20" -> "mount"
      [] loc = "set40" -> "set60"
      [] loc = "set60" -> "install"
      [] loc = "set80" -> "bootloader"
      [] loc = "set100" -> "fin_op"

\* the statement that follows each assignment to operation_progress
AfterSet(loc) ==
    CASE loc = "set0" -> "backup"
      [] loc = "set20" -> "mount"
      [] loc = "set40" -> "partition"
      [] loc = "set60" -> "install"
      [] loc = "set80" -> "bootloader"
      [] loc = "set100" -> "fin_op"

SetLocs == {"set0", "set20", "set40", "set60", "set80", "set100"}

\* exit statuses of a backend's command sequence: 0 accepted, anything else not
ExitCodes == {0, 1}

\* partition_manager.py:115-119, bootloader_manager.py:53-60: the operation
\* succeeds when every command it ran exited 0
AllAccepted(rcs) == \A i \in 1 .. Len(rcs) : rcs[i] = 0

Goto(t, loc) == pc' = [pc EXCEPT ![t] = loc]

Called(t, stage, ok) ==
    calls' = [calls EXCEPT ![t] = Append(@, [stage |-> stage, success |-> ok])]

\* nexus_engine.py:57,63,69,76,82  return {'success': False, 'error': ...}
Abort(t, text) ==
    /\ result' = [result EXCEPT ![t] = [success |-> FALSE, text |-> text]]
    /\ Goto(t, "fin_op")

\* StageReturn without the test of the stage's 'success' flag
StageReturnLenient(t, stage, ok, next) ==
    /\ Called(t, stage, ok)
    /\ Goto(t, next)
    /\ UNCHANGED result

\* a stage call returned: go on, or leave through the finally block
StageReturn(t, stage, ok, next) ==
    /\ Called(t, stage, ok)
    /\ IF ok THEN Goto(t, next) /\ UNCHANGED result
             ELSE Abort(t, StageError(stage))

\* nexus_engine.py:51
execute_os_switch_enter(t) ==
    /\ pc[t] = "enter"
    /\ current_operation' = "os_switch"
    /\ Goto(t, "set0")
    /\ UNCHANGED <<operation_progress, isoVars, histVars, auxVars, req, result, mount_result, calls,
                   progLog, emitted, guiVars>>

\* nexus_engine.py:52,59,65,71,78,84 (and the return of line 86 after the last)
execute_os_switch_progress(t) ==
    /\ pc[t] \in SetLocs
    /\ operation_progress' = ProgressAt(pc[t])
    /\ progLog' = [progLog EXCEPT ![t] = Append(@, ProgressAt(pc[t]))]
    /\ Goto(t, AfterSet(pc[t]))
    /\ result' = IF pc[t] = "set100"
                 THEN [result EXCEPT ![t] =
                         [success |-> TRUE, text |-> "OS switch completed successfully"]]
                 ELSE result
    /\ UNCHANGED <<current_operation, isoVars, histVars, auxVars, req, mount_result, calls,
                   emitted, guiVars>>

\* outcomes of lines 55-56: tempfile.mkdtemp() raising, or the backup's result
BackupOutcomes == {"ok", "fail", "raise"}

\* execute_os_switch_backup without the test of backup_result['success']
execute_os_switch_backup_unchecked(t) ==
    /\ pc[t] = "backup"
    /\ IF req[t].preserve_data
       THEN \E o \in BackupOutcomes :
               IF o = "raise"
               THEN Abort(t, "exception") /\ UNCHANGED calls
               ELSE Called(t, "backup", o = "ok") /\ Goto(t, "set20")
                    /\ UNCHANGED result
       ELSE Goto(t, "set20") /\ UNCHANGED <<calls, result>>
    /\ UNCHANGED <<engineVars, isoVars, histVars, auxVars, req, mount_result, progLog, emitted,
                   guiVars>>

\* nexus_engine.py:54-57 (and 88-89 when mkdtemp raises)
execute_os_switch_backup(t) ==
    /\ pc[t] = "backup"
    /\ IF req[t].preserve_data
       THEN \E o \in BackupOutcomes :
               IF o = "raise"
               THEN Abort(t, "exception") /\ UNCHANGED calls
               ELSE StageReturn(t, "backup", o = "ok", "set20")
       ELSE Goto(t, "set20") /\ UNCHANGED <<calls, result>>
    /\ UNCHANGED <<engineVars, isoVars, histVars, auxVars, req, mount_result, progLog, emitted,
                   guiVars>>

\* nexus_engine.py:61-63
execute_os_switch_mount(t) ==
    /\ pc[t] = "mount"
    /\ \E o \in MountOutcomes :
          /\ mount_iso(req[t].iso_path, o)
          /\ mount_result' = [mount_result EXCEPT ![t] = MountResult(mounted_isos, o)]
          /\ StageReturn(t, "mount", o = "rc0", "set40")
    /\ UNCHANGED <<engineVars, histVars, auxVars, req, progLog, emitted, guiVars>>

\* nexus_engine.py:67-69 with partition_manager.py:107-125 (mkfs, mkdir, mount)
execute_os_switch_partition(t) ==
    /\ pc[t] = "partition"
    /\ \E rcs \in [1 .. 3 -> ExitCodes] :
          StageReturn(t, "partition", AllAccepted(rcs), "set60")
    /\ UNCHANGED <<engineVars, isoVars, histVars, auxVars, req, mount_result, progLog, emitted,
                   guiVars>>

\* nexus_engine.py:73-76 with iso_manager.py:148-170
execute_os_switch_install(t) ==
    /\ pc[t] = "install"
    /\ \E found \in BOOLEAN, rc \in ExitCodes :
          StageReturn(t, "install", found /\ rc = 0, "set80")
    /\ UNCHANGED <<engineVars, isoVars, histVars, auxVars, req, mount_result, progLog, emitted,
                   guiVars>>

\* nexus_engine.py:80-82 with bootloader_manager.py:43-63 (update-grub)
execute_os_switch_bootloader(t) ==
    /\ pc[t] = "bootloader"
    /\ \E written \in BOOLEAN, rc \in ExitCodes :
          StageReturn(t, "bootloader", written /\ rc = 0, "set100")
    /\ UNCHANGED <<engineVars, isoVars, histVars, auxVars, req, mount_result, progLog, emitted,
                   guiVars>>

\* a finally block that clears current_operation and never gets further
execute_os_switch_finally_spin(t) ==
    /\ pc[t] = "fin_op"
    /\ current_operation' = None
    /\ UNCHANGED <<operation_progress, isoVars, histVars, auxVars, runVars, guiVars>>

\* a finally block that also unmounts the image of a failed run
execute_os_switch_finally_rollback(t) ==
    /\ pc[t] = "fin_op"
    /\ current_operation' = None
    /\ Goto(t, "fin_prog")
    /\ IF ~result[t].success /\ IsMounted(mounted_isos, req[t].iso_path)
       THEN \E o \in UnmountOutcomes : unmount_iso(req[t].iso_path, o)
       ELSE UNCHANGED isoVars
    /\ UNCHANGED <<operation_progress, histVars, auxVars, req, result, mount_result, calls,
                   progLog, emitted, guiVars>>

\* nexus_engine.py:90-91
execute_os_switch_finally_operation(t) ==
    /\ pc[t] = "fin_op"
    /\ current_operation' = None
    /\ Goto(t, "fin_prog")
    /\ UNCHANGED <<operation_progress, isoVars, histVars, auxVars, req, result, mount_result, calls,
                   progLog, emitted, guiVars>>

\* execute_os_switch_finally_progress without the assignment of line 92
execute_os_switch_finally_keep(t) ==
    /\ pc[t] = "fin_prog"
    /\ Goto(t, "returned")
    /\ UNCHANGED <<engineVars, isoVars, histVars, auxVars, req, result, mount_result, calls,
                   progLog, emitted, guiVars>>

\* nexus_engine.py:92, then the return
execute_os_switch_finally_progress(t) ==
    /\ pc[t] = "fin_prog"
    /\ operation_progress' = 0
    /\ progLog' = [progLog EXCEPT ![t] = Append(@, 0)]
    /\ Goto(t, "returned")
    /\ UNCHANGED <<current_operation, isoVars, histVars, auxVars, req, result, mount_result, calls,
                   emitted, guiVars>>

\* -------------------------------------------------------- OsSwitchThread

NoRequest == [iso_path |-> None, target_partition |-> None, preserve_data |-> FALSE]
NoResult == [success |-> FALSE, text |-> None]
NoMount == [success |-> FALSE, mount_point |-> -1, error |-> None]

Signal(sig, val, ok, text) == [sig |-> sig, val |-> val, ok |-> ok, text |-> text]

\* quantum_interface.py:512
run_prepare(t) ==
    /\ pc[t] = "run"
    /\ signals' = Append(signals, Signal("progress_updated", 10, TRUE,
                                         "Preparing OS switch operation..."))
    /\ emitted' = [emitted EXCEPT ![t] = Append(@, 10)]
    /\ Goto(t, "enter")
    /\ UNCHANGED <<engineVars, isoVars, histVars, auxVars, req, result, mount_result, calls, progLog,
                   current_iso_path, current_partition, preserve_data_checkbox,
                   execute_btn, dialog, progress_bar, validated>>

\* quantum_interface.py:516-520
run_report(t) ==
    /\ pc[t] = "returned"
    /\ IF result[t].success
       THEN /\ signals' = signals \o
                   <<Signal("progress_updated", 100, TRUE,
                            "OS switch completed successfully"),
                     Signal("operation_completed", 0, TRUE, result[t].text)>>
            /\ emitted' = [emitted EXCEPT ![t] = Append(@, 100)]
       ELSE /\ signals' = Append(signals,
                   Signal("operation_completed", 0, FALSE, result[t].text))
            /\ UNCHANGED emitted
    /\ Goto(t, "done")
    \* run() is over: the activation's locals are gone
    /\ req' = [req EXCEPT ![t] = NoRequest]
    /\ mount_result' = [mount_result EXCEPT ![t] = NoMount]
    /\ calls' = [calls EXCEPT ![t] = <<>>]
    /\ progLog' = [progLog EXCEPT ![t] = <<>>]
    /\ UNCHANGED <<engineVars, isoVars, histVars, auxVars, result,
                   current_iso_path, current_partition, preserve_data_checkbox,
                   execute_btn, dialog, progress_bar, validated>>

\* ------------------------------------------------------ QuantumInterface

\* the main window takes input only while no modal dialog is open
Interactive == dialog = <<>>

Push(d) == dialog' = Append(dialog, d)
Pop == dialog' = SubSeq(dialog, 1, Len(dialog) - 1)
Top == dialog[Len(dialog)]

\* quantum_interface.py:324-333, called from browse_iso (309-310) and
\* on_iso_selected (352-354)
on_iso_selected(path) ==
    /\ Interactive
    /\ current_iso_path' = path
    /\ LET validation_result == validate_iso_file(FileOf(path))
       IN  IF validation_result.valid
           THEN validated' = validated \cup {path} /\ UNCHANGED dialog
           ELSE Push("warning") /\ UNCHANGED validated
    /\ UNCHANGED <<engineVars, isoVars, histVars, auxVars, runVars, current_partition,
                   preserve_data_checkbox, execute_btn, progress_bar, signals>>

\* quantum_interface.py:356-357
on_partition_selected(part) ==
    /\ Interactive
    /\ current_partition' = part
    /\ UNCHANGED <<engineVars, isoVars, histVars, auxVars, runVars, current_iso_path,
                   preserve_data_checkbox, execute_btn, dialog, progress_bar,
                   signals, validated>>

\* quantum_interface.py:126-127  the user ticks or clears the checkbox
toggle_preserve_data ==
    /\ Interactive
    /\ preserve_data_checkbox' = ~preserve_data_checkbox
    /\ UNCHANGED <<engineVars, isoVars, histVars, auxVars, runVars, current_iso_path, current_partition,
                   execute_btn, dialog, progress_bar, signals, validated>>

\* quantum_interface.py:359-370  click on the execute button
click_execute ==
    /\ Interactive
    /\ execute_btn
    /\ IF current_iso_path = None \/ current_partition = None
       THEN Push("warning")
       ELSE Push("confirm")
    /\ UNCHANGED <<engineVars, isoVars, histVars, auxVars, runVars, current_iso_path, current_partition,
                   preserve_data_checkbox, execute_btn, progress_bar, signals,
                   validated>>

\* threads the front-end can construct anew: never started, or finished
Free(t) == pc[t] \in {"none", "done"}

\* quantum_interface.py:387  OsSwitchThread(...): the object that is constructed
\* (thread objects are interchangeable: the lowest free one is taken)
NewThread(t) == Free(t) /\ \A u \in Threads : Free(u) => t <= u

\* start_os_switch_operation without execute_btn.setEnabled(False)
start_os_switch_operation_enabled(t) ==
    /\ NewThread(t)
    /\ progress_bar' = 0
    /\ execute_btn' = execute_btn
    /\ req' = [req EXCEPT ![t] = [iso_path |-> current_iso_path,
                                  target_partition |-> current_partition,
                                  preserve_data |-> preserve_data_checkbox]]
    /\ result' = [result EXCEPT ![t] = NoResult]
    /\ mount_result' = [mount_result EXCEPT ![t] = NoMount]
    /\ calls' = [calls EXCEPT ![t] = <<>>]
    /\ progLog' = [progLog EXCEPT ![t] = <<>>]
    /\ emitted' = [emitted EXCEPT ![t] = <<>>]
    /\ Goto(t, "run")

\* quantum_interface.py:375-390
start_os_switch_operation(t) ==
    /\ NewThread(t)
    /\ progress_bar' = 0
    /\ execute_btn' = FALSE
    /\ req' = [req EXCEPT ![t] = [iso_path |-> current_iso_path,
                                  target_partition |-> current_partition,
                                  preserve_data |-> preserve_data_checkbox]]
    /\ result' = [result EXCEPT ![t] = NoResult]
    /\ mount_result' = [mount_result EXCEPT ![t] = NoMount]
    /\ calls' = [calls EXCEPT ![t] = <<>>]
    /\ progLog' = [progLog EXCEPT ![t] = <<>>]
    /\ emitted' = [emitted EXCEPT ![t] = <<>>]
    /\ Goto(t, "run")

\* quantum_interface.py:372-373  the confirmation is answered
confirm_reply(yes) ==
    /\ dialog # <<>> /\ Top = "confirm"
    /\ Pop
    /\ IF yes
       THEN \E t \in Threads : start_os_switch_operation(t)
       ELSE UNCHANGED <<runVars, execute_btn, progress_bar>>
    /\ UNCHANGED <<engineVars, isoVars, histVars, auxVars, current_iso_path, current_partition,
                   preserve_data_checkbox, signals, validated>>

\* a QMessageBox.warning / information / critical is closed
close_message ==
    /\ dialog # <<>> /\ Top \in {"warning", "result"}
    /\ Pop
    /\ UNCHANGED <<engineVars, isoVars, histVars, auxVars, runVars, current_iso_path, current_partition,
                   preserve_data_checkbox, execute_btn, progress_bar, signals,
                   validated>>

\* quantum_interface.py:392-395
update_progress(sg) ==
    /\ progress_bar' = sg.val
    /\ UNCHANGED <<execute_btn, dialog>>

\* quantum_interface.py:397-406
operation_completed(sg) ==
    /\ execute_btn' = TRUE
    /\ Push("result")
    /\ UNCHANGED progress_bar

\* the event loop delivers the oldest queued signal to its slot
deliver_signal ==
    /\ signals # <<>>
    /\ signals' = Tail(signals)
    /\ IF Head(signals).sig = "progress_updated"
       THEN update_progress(Head(signals))
       ELSE operation_completed(Head(signals))
    /\ UNCHANGED <<engineVars, isoVars, histVars, auxVars, runVars, current_iso_path, current_partition,
                   preserve_data_checkbox, validated>>

\* ---------------------------------------------------------------- Spec

InitPipeline ==
    /\ current_operation = None
    /\ operation_progress = 0
    /\ mounted_isos = <<>>
    /\ dirs = {}
    /\ kernel_mounts = <<>>
    /\ tool_run = None
    /\ lastOp = NoOp
    /\ prevOp = NoOp
    /\ pc = [t \in Threads |-> "none"]
    /\ req = [t \in Threads |-> NoRequest]
    /\ result = [t \in Threads |-> NoResult]
    /\ mount_result = [t \in Threads |-> NoMount]
    /\ calls = [t \in Threads |-> <<>>]
    /\ progLog = [t \in Threads |-> <<>>]
    /\ emitted = [t \in Threads |-> <<>>]
    /\ current_iso_path = None
    /\ current_partition = None
    /\ preserve_data_checkbox = TRUE
    /\ execute_btn = TRUE
    /\ dialog = <<>>
    /\ progress_bar = 0
    /\ signals = <<>>
    /\ validated = {}

NoValidation == [file |-> FileOf("missing.iso"), called |-> FALSE,
                 result |-> [valid |-> FALSE, error |-> None], opened |-> FALSE]

InitTeardown == cleanup_todo = {}

InitValidation == iso_file = FileOf("good.iso") /\ validation = NoValidation

NoInfo == [called |-> FALSE, type |-> None]

InitDetection == mounted_tree = {} /\ os_info = NoInfo /\ os_info_before = NoInfo

NotCreating == [active |-> FALSE, rec |-> 0]

NoBackupCall == [op |-> None, success |-> FALSE, error |-> None,
                 before |-> 0, after |-> 0, ext |-> None,
                 temp_created |-> FALSE, temp_removed |-> FALSE,
                 extracted |-> FALSE, copies |-> 0]

\* backup_manager.py:14-17
InitBackup ==
    /\ now = 0
    /\ dest_exists = FALSE
    /\ archives = {}
    /\ records = <<>>
    /\ active_backups = <<>>
    /\ backup_metadata = <<>>
    /\ creating = NotCreating
    /\ lastBackup = NoBackupCall

NoBackendCall == [op |-> None, result |-> [success |-> TRUE]]

InitBackend == backend_call = NoBackendCall

NoCommandRun == [op |-> None, rcs |-> <<>>, success |-> FALSE, ran |-> 0]

InitCommands == command_run = NoCommandRun

NoInstallCall == [called |-> FALSE, launched |-> <<>>,
                  result |-> [success |-> TRUE]]

InitInstallation == mount_entries = {} /\ install_call = NoInstallCall

NoOsInfo == [type |-> None, error |-> None]

NoPrepResult == [success |-> FALSE, error |-> None, os_info |-> NoOsInfo]

InitPreparation ==
    /\ prep_pc = "idle"
    /\ prep_entry = None
    /\ prep_file = FileOf("missing.iso")
    /\ prep_log = <<>>
    /\ prep_result = NoPrepResult
    /\ temp_dirs = 0
    /\ temp_mounts = {}

InitExtra == InitCommands /\ InitInstallation /\ InitPreparation

Init ==
    /\ InitPipeline
    /\ InitTeardown
    /\ InitValidation
    /\ InitDetection
    /\ InitBackup
    /\ InitBackend
    /\ InitExtra

Next ==
    \/ \E path \in Images : on_iso_selected(path)
    \/ \E part \in Partitions : on_partition_selected(part)
    \/ toggle_preserve_data
    \/ click_execute
    \/ \E yes \in BOOLEAN : confirm_reply(yes)
    \/ close_message
    \/ deliver_signal
    \/ \E t \in Threads : run_prepare(t)
    \/ \E t \in Threads : execute_os_switch_enter(t)
    \/ \E t \in Threads : execute_os_switch_progress(t)
    \/ \E t \in Threads : execute_os_switch_backup(t)
    \/ \E t \in Threads : execute_os_switch_mount(t)
    \/ \E t \in Threads : execute_os_switch_partition(t)
    \/ \E t \in Threads : execute_os_switch_install(t)
    \/ \E t \in Threads : execute_os_switch_bootloader(t)
    \/ \E t \in Threads : execute_os_switch_finally_operation(t)
    \/ \E t \in Threads : execute_os_switch_finally_progress(t)
    \/ \E t \in Threads : run_report(t)

Spec == Init /\ [][Next]_vars

\* ------------------------------------------------------------- SpecIso
\* IsoManager driven call by call; each call is recorded with the table and
\* the directories it found.

\* the caller is inside IsoManager.cleanup
CleanupRunning == lastOp.op = "cleanup" /\ lastOp.outcome = "running"

\* a caller invokes IsoManager.mount_iso (iso_manager.py:97)
call_mount_iso(iso_path, outcome) ==
    /\ ~CleanupRunning
    /\ mount_iso(iso_path, outcome)
    /\ prevOp' = lastOp
    /\ lastOp' = [op |-> "mount_iso", path |-> iso_path, outcome |-> outcome,
                  success |-> MountResult(mounted_isos, outcome).success,
                  error |-> MountResult(mounted_isos, outcome).error,
                  mp |-> NextMountPoint(mounted_isos),
                  table |-> mounted_isos, dirs |-> dirs]
    /\ UNCHANGED <<engineVars, runVars, guiVars, auxVars>>

\* a caller invokes IsoManager.unmount_iso (iso_manager.py:121)
call_unmount_iso(iso_path, outcome) ==
    /\ ~CleanupRunning
    /\ unmount_iso(iso_path, outcome)
    /\ prevOp' = lastOp
    /\ lastOp' = [op |-> "unmount_iso", path |-> iso_path, outcome |-> outcome,
                  success |-> UnmountResult(mounted_isos, iso_path, outcome).success,
                  error |-> UnmountResult(mounted_isos, iso_path, outcome).error,
                  mp |-> IF iso_path \in DOMAIN mounted_isos
                         THEN mounted_isos[iso_path] ELSE -1,
                  table |-> mounted_isos, dirs |-> dirs]
    /\ UNCHANGED <<engineVars, runVars, guiVars, auxVars>>

\* iso_manager.py:189-190  cleanup is entered: list(self.mounted_isos.keys())
cleanup_begin ==
    /\ ~CleanupRunning
    /\ cleanup_todo' = DOMAIN mounted_isos
    /\ prevOp' = lastOp
    /\ lastOp' = [op |-> "cleanup", path |-> None, outcome |-> "running",
                  success |-> FALSE, error |-> None, mp |-> -1,
                  table |-> mounted_isos, dirs |-> dirs]
    /\ UNCHANGED <<engineVars, isoVars, runVars, guiVars, validateVars, detectVars,
                   backupVars, backendVars,
                   extraVars>>

\* iso_manager.py:190-191  one pass of the loop; the result of unmount_iso is
\* dropped (the visiting order of the keys is left open)
cleanup_unmount(iso_path, outcome) ==
    /\ CleanupRunning
    /\ iso_path \in cleanup_todo
    /\ unmount_iso(iso_path, outcome)
    /\ cleanup_todo' = cleanup_todo \ {iso_path}
    /\ UNCHANGED <<engineVars, histVars, runVars, guiVars, validateVars, detectVars,
                   backupVars, backendVars,
                   extraVars>>

\* iso_manager.py:193-194  shutil.rmtree(self.temp_directory, ignore_errors=True):
\* directories that are still mount points stay
cleanup_end ==
    /\ CleanupRunning
    /\ cleanup_todo = {}
    /\ dirs' = {d \in dirs : MountedAt(kernel_mounts, d) # {}}
    /\ lastOp' = [lastOp EXCEPT !.outcome = "returned", !.success = TRUE]
    /\ UNCHANGED <<engineVars, mounted_isos, kernel_mounts, tool_run, prevOp,
                   cleanup_todo, runVars, guiVars, validateVars, detectVars,
                   backupVars, backendVars,
                   extraVars>>

NextIso ==
    \/ \E path \in Paths, o \in MountOutcomes : call_mount_iso(path, o)
    \/ \E path \in Paths, o \in UnmountOutcomes : call_unmount_iso(path, o)
    \/ cleanup_begin
    \/ \E path \in Paths, o \in UnmountOutcomes : cleanup_unmount(path, o)
    \/ cleanup_end

SpecIso == Init /\ [][NextIso]_vars

\* -------------------------------------------------------- SpecValidate
\* validate_iso_file applied to files of every kind.

\* the host puts another file under the path
replace_file(f) ==
    /\ iso_file' = f
    /\ UNCHANGED <<engineVars, isoVars, histVars, teardownVars, validation,
                   runVars, guiVars, detectVars, backupVars, backendVars,
                   extraVars>>

\* a caller invokes IsoManager.validate_iso_file (iso_manager.py:63)
call_validate_iso_file ==
    /\ validation' = [file |-> iso_file, called |-> TRUE,
                      result |-> validate_iso_file(iso_file),
                      opened |-> OpensFile(iso_file)]
    /\ UNCHANGED <<engineVars, isoVars, histVars, teardownVars, iso_file,
                   runVars, guiVars, detectVars, backupVars, backendVars,
                   extraVars>>

InitValidate ==
    /\ InitPipeline
    /\ InitTeardown
    /\ iso_file \in Files
    /\ validation = NoValidation
    /\ InitDetection
    /\ InitBackup
    /\ InitBackend
    /\ InitExtra

NextValidate ==
    \/ \E f \in Files : replace_file(f)
    \/ call_validate_iso_file

SpecValidate == InitValidate /\ [][NextValidate]_vars

\* ============================================================== claims

Min(S) == CHOOSE x \in S : \A y \in S : x <= y

Last(s) == s[Len(s)]

\* the run of thread t has returned from execute_os_switch (line 514 is over)
Returned(t) == pc[t] = "returned"

\* the run of thread t is between the entry of execute_os_switch and its return
Inside(t) == pc[t] \in SetLocs \cup {"backup", "mount", "partition", "install",
                                     "bootloader", "fin_op", "fin_prog"}

\* positions of the stage calls of run t that reported failure
Failures(t) == {i \in 1 .. Len(calls[t]) : ~calls[t][i].success}

\* run t invoked the stage (whatever it returned)
Invoked(t, stage) == \E i \in 1 .. Len(calls[t]) : calls[t][i].stage = stage

\* run t invoked the stage and it returned success
Succeeded(t, stage) ==
    \E i \in 1 .. Len(calls[t]) : calls[t][i] = [stage |-> stage, success |-> TRUE]

Idle == [current_operation |-> None, progress |-> 0]

\* C1: a run in which a stage reported failure returns success=False with the
\* fixed error of the first failing stage, and get_operation_status after the
\* return reports current_operation None and progress 0.
C1_FailureNamesFirstFailingStage ==
    \A t \in Threads :
        (Returned(t) /\ Failures(t) # {}) =>
            LET stage == calls[t][Min(Failures(t))].stage
            IN  /\ ~result[t].success
                /\ stage = "backup" => result[t].text = "Backup failed"
                /\ stage = "mount" => result[t].text = "ISO mount failed"
                /\ stage = "partition" => result[t].text = "Partition preparation failed"
                /\ stage = "install" => result[t].text = "Installation failed"
                /\ stage = "bootloader" =>
                       result[t].text = "Bootloader configuration failed"
                /\ get_operation_status = Idle

\* C1 witness: backup, mount and partition preparation succeeded, installation
\* failed, and the run has returned.
C1_Witness ==
    \E t \in Threads :
        /\ Returned(t)
        /\ req[t].preserve_data
        /\ calls[t] = <<[stage |-> "backup", success |-> TRUE],
                        [stage |-> "mount", success |-> TRUE],
                        [stage |-> "partition", success |-> TRUE],
                        [stage |-> "install", success |-> FALSE]>>

\* C2 (as claimed): a run whose mount_iso succeeded invokes unmount_iso for the
\* image exactly once before it ends, and the image is not in the Mount Table
\* after the run returned.
C2_MountPairedWithUnmount ==
    \A t \in Threads :
        (Returned(t) /\ Succeeded(t, "mount")) =>
            /\ Cardinality({i \in 1 .. Len(calls[t]) :
                               calls[t][i].stage = "unmount"}) = 1
            /\ req[t].iso_path \notin DOMAIN mounted_isos

\* C3 (as claimed): partition preparation and installation are reached only
\* with an image that passed validate_iso_file.
C3_OnlyValidatedImagesInstalled ==
    \A t \in Threads :
        (Invoked(t, "partition") \/ Invoked(t, "install")) =>
            req[t].iso_path \in validated

\* C4: with preserve_data, prepare_partition is invoked only after the backup
\* returned success in the same run; after a failed backup no later stage is
\* invoked.
C4_BackupBeforePartition ==
    \A t \in Threads :
        req[t].preserve_data =>
            /\ \A i \in 1 .. Len(calls[t]) :
                   calls[t][i].stage = "partition" =>
                       \E j \in 1 .. i - 1 :
                           calls[t][j] = [stage |-> "backup", success |-> TRUE]
            /\ (\E j \in 1 .. Len(calls[t]) :
                   calls[t][j] = [stage |-> "backup", success |-> FALSE]) =>
                       \A st \in {"mount", "partition", "install", "bootloader"} :
                           ~Invoked(t, st)

\* C4 witness: a preserving run has reached the destructive stage.
C4_Witness ==
    \E t \in Threads : req[t].preserve_data /\ Invoked(t, "partition")

\* C5: in a successful run the progress a listener sees is non-decreasing and
\* ends at 100: while the operation marker reads 'os_switch' the polled
\* progress never decreases, it is 100 when a successful run clears the marker,
\* and the thread emitted progress_updated 10 and then 100.
C5_ListenerSeesProgressRiseTo100 ==
    /\ [][(current_operation = "os_switch" /\ current_operation' = "os_switch")
              => operation_progress' >= operation_progress]_vars
    /\ [](\A t \in Threads :
            /\ (pc[t] = "fin_op" /\ result[t].success) => operation_progress = 100
            /\ (pc[t] = "done" /\ result[t].success) => emitted[t] = <<10, 100>>)

\* C5 witness: a successful run is finished and its signals are out.
C5_Witness ==
    \E t \in Threads : pc[t] = "done" /\ result[t].success

\* C6: within one run the values written to operation_progress never decrease
\* while the run is active, and 0 is written exactly at the two run
\* boundaries: once on entry and once in the finally block.
C6_ProgressMonotoneResetAtBoundary ==
    \A t \in Threads :
        LET log == progLog[t]
            n == Len(log)
            body == IF Returned(t) THEN SubSeq(log, 1, n - 1) ELSE log
        IN  /\ \A i, j \in 1 .. Len(body) : i <= j => body[i] <= body[j]
            /\ Returned(t) => \A i \in 1 .. n : log[i] = 0 <=> i \in {1, n}
            /\ (Inside(t) /\ pc[t] # "set0") => operation_progress = Last(log)

\* C6 witness: a run that got past the bootloader stage has returned.
C6_Witness ==
    \E t \in Threads : Returned(t) /\ Len(progLog[t]) = 7

\* C7: after execute_os_switch returns, on success, on a stage failure or on an
\* exception inside a stage (returned as success=False with the exception
\* text), current_operation is None and operation_progress is 0.
C7_IdleAfterReturn ==
    \A t \in Threads :
        Returned(t) =>
            /\ current_operation = None
            /\ operation_progress = 0
            /\ result[t] # NoResult
            /\ result[t].text = "exception" => ~result[t].success

\* C7 witness: a run in which mkdtemp raised has returned.
C7_Witness ==
    \E t \in Threads : Returned(t) /\ result[t].text = "exception"

\* C8: with the GUI as caller, no two runs of execute_os_switch are active on
\* the engine at the same time.
C8_OneRunAtATime ==
    /\ Cardinality({t \in Threads : Inside(t)}) <= 1
    /\ \A t \in Threads : Inside(t) => ~execute_btn

\* C8 witness: a second run is active after an earlier one mounted its image
\* and returned.
C8_Witness ==
    \E t \in Threads : Inside(t) /\ pc[t] = "backup" /\ kernel_mounts # <<>>

\* the latest two IsoManager calls were a successful mount_iso(p) on a table
\* without p, followed by a successful unmount_iso(p)
MountThenUnmount ==
    /\ prevOp.op = "mount_iso" /\ prevOp.success
    /\ lastOp.op = "unmount_iso" /\ lastOp.success
    /\ prevOp.path = lastOp.path
    /\ prevOp.path \notin DOMAIN prevOp.table

\* C9 (as claimed): a successful mount_iso(p) followed by a successful
\* unmount_iso(p) leaves the Mount Table as it was before the pair, and the
\* mount-point directory allocated for p no longer exists.
C9_MountUnmountRestores ==
    MountThenUnmount =>
        /\ mounted_isos = prevOp.table
        /\ prevOp.mp \notin dirs

\* C10: a failing mount_iso or unmount_iso leaves the Mount Table unchanged;
\* unmount_iso of a path that is not mounted launches no tool and deletes no
\* directory; a failed unmount keeps the entry and its directory.
C10_FailureLeavesTableUnchanged ==
    /\ (lastOp.op = "unmount_iso" /\ lastOp.path \notin DOMAIN lastOp.table) =>
           /\ ~lastOp.success /\ lastOp.error = "ISO not mounted"
           /\ tool_run = None
           /\ mounted_isos = lastOp.table
           /\ dirs = lastOp.dirs
    /\ (lastOp.op = "unmount_iso" /\ lastOp.path \in DOMAIN lastOp.table
          /\ lastOp.outcome # "rc0") =>
           /\ ~lastOp.success
           /\ mounted_isos = lastOp.table
           /\ dirs = lastOp.dirs
           /\ lastOp.table[lastOp.path] \in dirs
    /\ (lastOp.op = "mount_iso" /\ lastOp.outcome # "rc0") =>
           /\ ~lastOp.success
           /\ mounted_isos = lastOp.table

\* C10 witness: the umount of a mounted image exited non-zero.
C10_Witness ==
    /\ lastOp.op = "unmount_iso"
    /\ lastOp.path \in DOMAIN lastOp.table
    /\ lastOp.outcome = "rc1"

\* the stage names of the calls run t has made, in call order
StagesCalled(t) == [i \in 1 .. Len(calls[t]) |-> calls[t][i].stage]

IsPrefix(s, full) == Len(s) <= Len(full) /\ \A i \in 1 .. Len(s) : s[i] = full[i]

\* C19: the stages of one run are invoked in the order backup (only with
\* preserve_data), mount_iso, prepare_partition, install_from_mounted,
\* configure_bootloader, each at most once and only after the previous one
\* returned success; no stage follows the first failure.
C19_StagesInOrderFailFast ==
    \A t \in Threads :
        LET order == IF req[t].preserve_data
                     THEN <<"backup", "mount", "partition", "install", "bootloader">>
                     ELSE <<"mount", "partition", "install", "bootloader">>
        IN  /\ IsPrefix(StagesCalled(t), order)
            /\ \A i \in 1 .. Len(calls[t]) - 1 : calls[t][i].success

\* C19 witness: a run without backup was stopped by the installation stage.
C19_Witness ==
    \E t \in Threads :
        /\ ~req[t].preserve_data
        /\ Returned(t)
        /\ StagesCalled(t) = <<"mount", "partition", "install">>
        /\ ~calls[t][3].success

\* C20 (as claimed): no two entries of the Mount Table share a mount point,
\* and the mount point a successful mount_iso chose was not the mount point
\* of another mounted image.
C20_MountPointsFresh ==
    /\ \A p, q \in DOMAIN mounted_isos :
           p # q => mounted_isos[p] # mounted_isos[q]
    /\ (lastOp.op = "mount_iso" /\ lastOp.success) =>
           \A q \in DOMAIN lastOp.table \ {lastOp.path} :
               lastOp.table[q] # lastOp.mp

\* C11 (as claimed): when cleanup has returned, the Mount Table is empty, no
\* image that was in the table is still mounted, and no mount-point directory
\* is left, whatever the umount invocations returned.
C11_CleanupUnmountsEverything ==
    (lastOp.op = "cleanup" /\ lastOp.outcome = "returned") =>
        /\ DOMAIN mounted_isos = {}
        /\ \A i \in 1 .. Len(kernel_mounts) :
               kernel_mounts[i].iso \notin DOMAIN lastOp.table
        /\ dirs = {}

\* C15: validate_iso_file answers valid=True exactly for an existing file of at
\* least 1 MiB whose first 2048-byte block can be read and starts with "CD001"
\* or with four zero bytes; a missing file gets 'File does not exist'; an
\* existing file under 1 MiB gets 'File too small to be valid ISO' and is not
\* opened; a file of sufficient size failing both marker checks gets
\* 'Invalid ISO structure'.
C15_ValidateIsoFile ==
    validation.called =>
        LET f == validation.file
            r == validation.result
            marker == /\ f.readable
                      /\ Len(f.head) >= 4
                      /\ \/ /\ Len(f.head) >= 5
                            /\ f.head[1] = 67 /\ f.head[2] = 68 /\ f.head[3] = 48
                            /\ f.head[4] = 48 /\ f.head[5] = 49
                         \/ \A i \in 1 .. 4 : f.head[i] = 0
        IN  /\ r.valid <=> (f.exists /\ f.size >= 1048576 /\ marker)
            /\ ~f.exists => r.error = "File does not exist"
            /\ (f.exists /\ f.size < 1048576) =>
                   r.error = "File too small to be valid ISO" /\ ~validation.opened
            /\ (f.exists /\ f.size >= 1048576 /\ ~marker) =>
                   r.error = "Invalid ISO structure"

\* C15 witness: a file of exactly 1 MiB starting with four zero bytes followed
\* by a non-zero byte was validated and accepted.
C15_Witness ==
    /\ validation.called
    /\ validation.file.size = 1048576
    /\ validation.file.head = <<0, 0, 0, 0, 7>>
    /\ validation.result.valid

\* ---------------------------------------------------------- SpecDetect
\* _analyze_mounted_iso applied, repeatedly, to every tree over Entries.

\* a caller invokes OsDetector._analyze_mounted_iso (os_detector.py:274)
call_analyze_mounted_iso ==
    /\ os_info' = [called |-> TRUE, type |-> analyze_mounted_iso(mounted_tree).type]
    /\ os_info_before' = os_info
    /\ UNCHANGED <<engineVars, isoVars, histVars, teardownVars, validateVars,
                   mounted_tree, runVars, guiVars, backupVars, backendVars,
                   extraVars>>

InitDetect ==
    /\ InitPipeline
    /\ InitTeardown
    /\ InitValidation
    /\ mounted_tree \in Trees
    /\ os_info = NoInfo
    /\ os_info_before = NoInfo
    /\ InitBackup
    /\ InitBackend
    /\ InitExtra

NextDetect == call_analyze_mounted_iso

SpecDetect == InitDetect /\ [][NextDetect]_vars

\* the tree matches the signatures of the named family
Matches(family) ==
    \E i \in 1 .. Len(os_signatures) :
        /\ os_signatures[i].os_type = family
        /\ matches_signatures(mounted_tree, os_signatures[i])

\* C14: classifying the same tree twice gives the same type; a tree matching
\* windows is windows, a tree matching linux but not windows is linux, a tree
\* matching only macos is macos, and a tree matching no family is 'Unknown'.
C14_ClassificationOrderStable ==
    os_info.called =>
        /\ os_info_before.called => os_info.type = os_info_before.type
        /\ Matches("windows") => os_info.type = "windows"
        /\ (~Matches("windows") /\ Matches("linux")) => os_info.type = "linux"
        /\ (~Matches("windows") /\ ~Matches("linux") /\ Matches("macos")) =>
               os_info.type = "macos"
        /\ (~Matches("windows") /\ ~Matches("linux") /\ ~Matches("macos")) =>
               os_info.type = "Unknown"

\* C14 witness: a tree with markers of linux and macos and none of windows was
\* classified twice.
C14_Witness ==
    /\ os_info.called /\ os_info_before.called
    /\ Matches("linux") /\ Matches("macos") /\ ~Matches("windows")
    /\ os_info.type = "linux"

\* --------------------------------------------------------- BackupManager

\* clock ticks in one second: "%Y%m%d_%H%M%S" (backup_manager.py:51) keeps
\* whole seconds
TicksPerSecond == 2

\* backup_manager.py:50-52  the timestamp part of the identifier
generate_backup_id(clock) == clock \div TicksPerSecond

\* the name of an archive the program did not write
ForeignArchive == -1

\* backup_manager.py:133 and 204  file.endswith(('.zip', '.tar.gz'))
ArchiveExts == {".zip", ".tar.gz"}

\* backup_manager.py:192-220  the entries list_backups returns for a directory
list_backups(directory) == {f \in directory : f.ext \in ArchiveExts}

\* backup_manager.py:129-136
find_backup_files(directory) == {f \in directory : f.ext \in ArchiveExts}

\* dict[key] = value
Put(dict, key, value) ==
    [k \in DOMAIN dict \cup {key} |-> IF k = key THEN value ELSE dict[k]]

\* open(file, 'w'): the file of that name is created or replaced
WriteFile(directory, id, ext, mtime) ==
    {f \in directory : ~(f.id = id /\ f.ext = ext)}
        \cup {[id |-> id, ext |-> ext, mtime |-> mtime]}

\* time passes
tick ==
    /\ now < MaxClock
    /\ now' = now + 1
    /\ UNCHANGED <<engineVars, isoVars, histVars, teardownVars, validateVars,
                   detectVars, dest_exists, archives, records, active_backups,
                   backup_metadata, creating, lastBackup, runVars, guiVars,
                   backendVars,
                   extraVars>>

\* an archive made on a Windows host is copied into the backup directory
place_archive ==
    /\ dest_exists
    /\ archives' = WriteFile(archives, ForeignArchive, ".zip", now)
    /\ UNCHANGED <<engineVars, isoVars, histVars, teardownVars, validateVars,
                   detectVars, now, dest_exists, records, active_backups,
                   backup_metadata, creating, lastBackup, runVars, guiVars,
                   backendVars,
                   extraVars>>

\* create_system_backup whose new dict replaces the status of a record that
\* already carries the same identifier
create_system_backup_begin_shared(makedirs) ==
    /\ ~creating.active
    /\ Len(records) < MaxBackups
    /\ dest_exists => makedirs = "ok"
    /\ IF makedirs = "raise"
       THEN /\ lastBackup' = [NoBackupCall EXCEPT !.op = "create_system_backup",
                                                  !.error = "str(e)"]
            /\ UNCHANGED <<dest_exists, records, active_backups, creating>>
       ELSE LET backup_id == generate_backup_id(now)
                same == {i \in 1 .. Len(records) : records[i].id = backup_id}
                slot == IF same = {} THEN Len(records) + 1
                        ELSE CHOOSE i \in same : TRUE
            IN  /\ dest_exists' = TRUE
                /\ records' =
                      IF same = {}
                      THEN Append(records,
                                  [id |-> backup_id, status |-> "in_progress"])
                      ELSE [records EXCEPT ![slot].status = "in_progress"]
                /\ active_backups' = Put(active_backups, backup_id, slot)
                /\ creating' = [active |-> TRUE, rec |-> slot]
                /\ UNCHANGED lastBackup
    /\ UNCHANGED <<engineVars, isoVars, histVars, teardownVars, validateVars,
                   detectVars, now, archives, backup_metadata, runVars, guiVars,
                   backendVars,
                   extraVars>>

\* backup_manager.py:20-32  create_system_backup up to the registration of the
\* new backup_info dict; makedirs is called only for a missing directory
create_system_backup_begin(makedirs) ==
    /\ ~creating.active
    /\ Len(records) < MaxBackups
    /\ dest_exists => makedirs = "ok"
    /\ IF makedirs = "raise"
       THEN /\ lastBackup' = [NoBackupCall EXCEPT !.op = "create_system_backup",
                                                  !.error = "str(e)"]
            /\ UNCHANGED <<dest_exists, records, active_backups, creating>>
       ELSE LET backup_id == generate_backup_id(now)
                slot == Len(records) + 1
            IN  /\ dest_exists' = TRUE
                /\ records' = Append(records,
                                     [id |-> backup_id, status |-> "in_progress"])
                /\ active_backups' = Put(active_backups, backup_id, slot)
                /\ creating' = [active |-> TRUE, rec |-> slot]
                /\ UNCHANGED lastBackup
    /\ UNCHANGED <<engineVars, isoVars, histVars, teardownVars, validateVars,
                   detectVars, now, archives, backup_metadata, runVars, guiVars,
                   backendVars,
                   extraVars>>

\* outcomes of _create_unix_backup (backup_manager.py:86-106): the archive is
\* written, tarfile.open raises, or writing raises after the file was created
CreateOutcomes == {"ok", "raise", "raise_partial"}

\* backup_manager.py:34-45  _create_unix_backup and the status update
create_system_backup_finish(outcome) ==
    /\ creating.active
    /\ LET slot == creating.rec
           backup_id == records[slot].id
           success == outcome = "ok"
           written == IF outcome = "raise" THEN archives
                      ELSE WriteFile(archives, backup_id, ".tar.gz", now)
       IN  /\ archives' = written
           /\ records' = [records EXCEPT ![slot].status =
                             IF success THEN "completed" ELSE "failed"]
           /\ backup_metadata' =
                 IF success THEN Put(backup_metadata, backup_id, slot)
                 ELSE backup_metadata
           /\ lastBackup' =
                 [NoBackupCall EXCEPT !.op = "create_system_backup",
                                      !.success = success,
                                      !.error = IF success THEN None ELSE "str(e)",
                                      !.before = Cardinality(list_backups(archives)),
                                      !.after = Cardinality(list_backups(written))]
    /\ creating' = NotCreating
    /\ UNCHANGED <<engineVars, isoVars, histVars, teardownVars, validateVars,
                   detectVars, now, dest_exists, active_backups, runVars, guiVars,
                   backendVars,
                   extraVars>>

\* the first command of the sequence that exits non-zero, Len + 1 if none
FirstFailure(rcs) ==
    IF \E i \in 1 .. Len(rcs) : rcs[i] # 0
    THEN CHOOSE i \in 1 .. Len(rcs) :
             rcs[i] # 0 /\ \A j \in 1 .. i - 1 : rcs[j] = 0
    ELSE Len(rcs) + 1

\* _restore_unix_backup that takes an archive of any format
restore_unix_backup_any(backup_file, extract, rcs) ==
    LET call == [NoBackupCall EXCEPT !.op = "restore_system_backup",
                                     !.ext = backup_file.ext]
    IN  IF extract = "raise"
        THEN [call EXCEPT !.error = "str(e)", !.temp_created = TRUE]
        ELSE IF FirstFailure(rcs) <= Len(rcs)
        THEN [call EXCEPT !.error = "Restore command failed",
                          !.temp_created = TRUE, !.extracted = TRUE,
                          !.copies = FirstFailure(rcs)]
        ELSE [call EXCEPT !.success = TRUE, !.temp_created = TRUE,
                          !.temp_removed = TRUE, !.extracted = TRUE,
                          !.copies = Len(rcs)]

\* backup_manager.py:165-190  extract is the outcome of tarfile extraction,
\* rcs the exit codes the three `sudo cp -r` commands would give
restore_unix_backup(backup_file, extract, rcs) ==
    LET call == [NoBackupCall EXCEPT !.op = "restore_system_backup",
                                     !.ext = backup_file.ext]
    IN  IF backup_file.ext # ".tar.gz"
        THEN [call EXCEPT !.error = "Invalid backup file format"]
        ELSE IF extract = "raise"
        THEN [call EXCEPT !.error = "str(e)", !.temp_created = TRUE]
        ELSE IF FirstFailure(rcs) <= Len(rcs)
        THEN [call EXCEPT !.error = "Restore command failed",
                          !.temp_created = TRUE, !.extracted = TRUE,
                          !.copies = FirstFailure(rcs)]
        ELSE [call EXCEPT !.success = TRUE, !.temp_created = TRUE,
                          !.temp_removed = TRUE, !.extracted = TRUE,
                          !.copies = Len(rcs)]

\* backup_manager.py:108-127  max(backup_files, key=os.path.getmtime): any of
\* the files with the greatest modification time
restore_system_backup_outcomes(exists, directory, extract, rcs) ==
    LET call == [NoBackupCall EXCEPT !.op = "restore_system_backup"]
        backup_files == find_backup_files(directory)
    IN  IF ~exists
        THEN {[call EXCEPT !.error = "Backup path does not exist"]}
        ELSE IF backup_files = {}
        THEN {[call EXCEPT !.error = "No backup files found"]}
        ELSE {restore_unix_backup(latest_backup, extract, rcs) :
                 latest_backup \in
                     {f \in backup_files :
                         \A g \in backup_files : g.mtime <= f.mtime}}

\* a caller invokes BackupManager.restore_system_backup (backup_manager.py:108)
restore_system_backup(extract, rcs) ==
    /\ ~creating.active
    /\ lastBackup' \in
          restore_system_backup_outcomes(dest_exists, archives, extract, rcs)
    /\ UNCHANGED <<engineVars, isoVars, histVars, teardownVars, validateVars,
                   detectVars, now, dest_exists, archives, records,
                   active_backups, backup_metadata, creating, runVars, guiVars,
                   backendVars,
                   extraVars>>

\* ----------------------------------------------------------- SpecBackup
\* BackupManager driven call by call against one backup directory.

NextBackup ==
    \/ tick
    \/ place_archive
    \/ \E makedirs \in {"ok", "raise"} : create_system_backup_begin(makedirs)
    \/ \E outcome \in CreateOutcomes : create_system_backup_finish(outcome)
    \/ \E extract \in {"ok", "raise"}, rcs \in [1 .. 3 -> ExitCodes] :
           restore_system_backup(extract, rcs)

SpecBackup == Init /\ [][NextBackup]_vars

\* C13: every record that appears is 'in_progress' and belongs to the call in
\* progress; a record that is 'completed' or 'failed' keeps its status in
\* every later step; no record is 'in_progress' unless a create_system_backup
\* call is running, and then only the record of that call.
C13_RecordStatusChangesOnce ==
    [][/\ \A i \in 1 .. Len(records) :
              /\ i <= Len(records')
              /\ records'[i].id = records[i].id
              /\ records[i].status \in {"completed", "failed"} =>
                     records'[i].status = records[i].status
              /\ records'[i].status \in {"in_progress", "completed", "failed"}
       /\ \A i \in Len(records) + 1 .. Len(records') :
              records'[i].status = "in_progress" /\ creating'.active
                  /\ creating'.rec = i
       /\ \A i \in 1 .. Len(records') :
              records'[i].status = "in_progress" =>
                  creating'.active /\ creating'.rec = i]_vars

\* C13 witness: two calls in the same second have returned, the first
\* completed and the second failed, and both records kept their status.
C13_Witness ==
    /\ Len(records) >= 2
    /\ records[1].id = records[2].id
    /\ records[1].status = "completed"
    /\ records[2].status = "failed"
    /\ ~creating.active

\* C17 (as claimed): a create_system_backup call that returned success left
\* the listing of the directory with exactly one entry more than the call
\* found.
C17_SuccessAddsOneEntry ==
    (lastBackup.op = "create_system_backup" /\ lastBackup.success) =>
        lastBackup.after = lastBackup.before + 1

\* C12 (as claimed): a restore that created a temporary extraction directory
\* has removed it when it returns, on success and on failure.
C12_TempDirRemoved ==
    (lastBackup.op = "restore_system_backup" /\ lastBackup.temp_created) =>
        lastBackup.temp_removed

\* C18: on a POSIX host a restore succeeds only from a .tar.gz archive; when
\* the most recently modified archive is a .zip the call fails with 'Invalid
\* backup file format', extracts nothing, creates no temporary directory and
\* runs no copy command.
C18_RestoreRequiresPlatformFormat ==
    lastBackup.op = "restore_system_backup" =>
        /\ lastBackup.success => lastBackup.ext = ".tar.gz"
        /\ lastBackup.ext = ".zip" =>
               /\ ~lastBackup.success
               /\ lastBackup.error = "Invalid backup file format"
               /\ ~lastBackup.extracted
               /\ ~lastBackup.temp_created
               /\ lastBackup.copies = 0

\* C18 witness: the directory holds a .tar.gz archive and a newer .zip, and
\* the restore picked the .zip.
C18_Witness ==
    /\ lastBackup.op = "restore_system_backup"
    /\ lastBackup.ext = ".zip"
    /\ \E f, g \in archives :
           f.ext = ".tar.gz" /\ g.ext = ".zip" /\ f.mtime < g.mtime

\* ---------------------------------------------------------- SpecBackend
\* Each backend operation called on its own, for every outcome of the tools
\* it runs; backend_call keeps the dict the call returned.

\* no dict comes back: the exception leaves the operation
Propagated == [raised |-> TRUE]

\* an operation without its `except Exception` clause
ExceptBranchMissing == Propagated

\* `except Exception as e: return {'success': False, 'error': str(e)}`
\* (iso_manager.py:169-170, partition_manager.py:124-125,
\* bootloader_manager.py:62-63, backup_manager.py:47-48 and 126-127)
ExceptBranch == [success |-> FALSE, error |-> "str(e)"]

\* a tool run: exit status 0, exit status 1, or subprocess.run raises
ToolOutcomes == {"rc0", "rc1", "raise"}

\* iso_manager.py:97-119  only the keys every caller gets
mount_iso_result(table, outcome) ==
    LET r == MountResult(table, outcome)
    IN  IF r.success THEN [success |-> TRUE, mount_point |-> r.mount_point]
        ELSE [success |-> FALSE, error |-> r.error]

\* iso_manager.py:121-146
unmount_iso_result(table, iso_path, outcome) ==
    LET r == UnmountResult(table, iso_path, outcome)
    IN  IF r.success THEN [success |-> TRUE]
        ELSE [success |-> FALSE, error |-> r.error]

\* the candidate list in the opposite order
possible_scripts_reversed ==
    <<"installer", "setup.sh", "install.sh", "autorun.exe", "install.exe",
      "setup.exe">>

\* iso_manager.py:173-180
possible_scripts ==
    <<"setup.exe", "install.exe", "autorun.exe", "install.sh", "setup.sh",
      "installer">>

\* iso_manager.py:172-187  entries: the names for which
\* os.path.exists(os.path.join(mount_point, name)) holds; None when no
\* candidate exists
find_install_script(entries) ==
    LET present == {i \in 1 .. Len(possible_scripts) :
                       possible_scripts[i] \in entries}
    IN  IF present = {} THEN None
        ELSE possible_scripts[CHOOSE i \in present : \A j \in present : i <= j]

\* iso_manager.py:148-170  found: _find_install_script returned a path
install_from_mounted_result(found, outcome) ==
    IF ~found THEN [success |-> FALSE, error |-> "No installation script found"]
    ELSE IF outcome = "raise" THEN ExceptBranch
    ELSE IF outcome = "rc0" THEN [success |-> TRUE]
    ELSE [success |-> FALSE, error |-> "stderr"]

\* partition_manager.py:77-84 and 107-125  the commands run in order; the
\* first that does not exit 0 ends the call
prepare_partition_result(outcomes) ==
    IF \A i \in 1 .. Len(outcomes) : outcomes[i] = "rc0"
    THEN [success |-> TRUE, message |-> "Partition prepared"]
    ELSE LET first == CHOOSE i \in 1 .. Len(outcomes) :
                          /\ outcomes[i] # "rc0"
                          /\ \A j \in 1 .. i - 1 : outcomes[j] = "rc0"
         IN  IF outcomes[first] = "raise" THEN ExceptBranch
             ELSE [success |-> FALSE, error |-> "Command failed: stderr"]

\* bootloader_manager.py:13-20 and 43-63  written: the script under
\* /etc/grub.d could be written and made executable
configure_bootloader_result(written, outcome) ==
    IF ~written THEN ExceptBranch
    ELSE IF outcome = "raise" THEN ExceptBranch
    ELSE IF outcome = "rc0"
         THEN [success |-> TRUE, message |-> "GRUB bootloader configured"]
    ELSE [success |-> FALSE, error |-> "stderr"]

\* backup_manager.py:19-48  makedirs: outcome of os.makedirs; outcome: that of
\* _create_unix_backup, whose own handler (lines 105-106) turns an exception
\* into a failure dict
create_system_backup_result(makedirs, outcome) ==
    IF makedirs = "raise" THEN ExceptBranch
    ELSE IF outcome = "ok" THEN [success |-> TRUE, backup_id |-> "backup_id"]
    ELSE [success |-> FALSE, error |-> "str(e)"]

\* backup_manager.py:108-127  the dict of a restore outcome
restore_system_backup_result(call) ==
    IF call.success
    THEN [success |-> TRUE, message |-> "Unix backup restored successfully"]
    ELSE IF call.error = "str(e)" THEN ExceptBranch
    ELSE [success |-> FALSE, error |-> call.error]

\* backup directories a restore can meet
Directories ==
    {{},
     {[id |-> 0, ext |-> ".tar.gz", mtime |-> 0]},
     {[id |-> ForeignArchive, ext |-> ".zip", mtime |-> 0]},
     {[id |-> 0, ext |-> ".tar.gz", mtime |-> 0],
      [id |-> ForeignArchive, ext |-> ".zip", mtime |-> 1]}}

backend_mount_iso(iso_path, outcome) ==
    /\ mount_iso(iso_path, outcome)
    /\ backend_call' = [op |-> "mount_iso",
                        result |-> mount_iso_result(mounted_isos, outcome)]
    /\ UNCHANGED <<engineVars, histVars, teardownVars, validateVars, detectVars,
                   backupVars, runVars, guiVars,
                   extraVars>>

backend_unmount_iso(iso_path, outcome) ==
    /\ unmount_iso(iso_path, outcome)
    /\ backend_call' = [op |-> "unmount_iso",
                        result |-> unmount_iso_result(mounted_isos, iso_path,
                                                      outcome)]
    /\ UNCHANGED <<engineVars, histVars, teardownVars, validateVars, detectVars,
                   backupVars, runVars, guiVars,
                   extraVars>>

backend_install_from_mounted(found, outcome) ==
    /\ backend_call' = [op |-> "install_from_mounted",
                        result |-> install_from_mounted_result(found, outcome)]
    /\ UNCHANGED <<engineVars, isoVars, histVars, teardownVars, validateVars,
                   detectVars, backupVars, runVars, guiVars,
                   extraVars>>

backend_prepare_partition(outcomes) ==
    /\ backend_call' = [op |-> "prepare_partition",
                        result |-> prepare_partition_result(outcomes)]
    /\ UNCHANGED <<engineVars, isoVars, histVars, teardownVars, validateVars,
                   detectVars, backupVars, runVars, guiVars,
                   extraVars>>

backend_configure_bootloader(written, outcome) ==
    /\ backend_call' = [op |-> "configure_bootloader",
                        result |-> configure_bootloader_result(written, outcome)]
    /\ UNCHANGED <<engineVars, isoVars, histVars, teardownVars, validateVars,
                   detectVars, backupVars, runVars, guiVars,
                   extraVars>>

backend_create_system_backup(makedirs, outcome) ==
    /\ backend_call' = [op |-> "create_system_backup",
                        result |-> create_system_backup_result(makedirs, outcome)]
    /\ UNCHANGED <<engineVars, isoVars, histVars, teardownVars, validateVars,
                   detectVars, backupVars, runVars, guiVars,
                   extraVars>>

backend_restore_system_backup(exists, directory, extract, rcs) ==
    /\ \E call \in restore_system_backup_outcomes(exists, directory, extract, rcs) :
          backend_call' = [op |-> "restore_system_backup",
                           result |-> restore_system_backup_result(call)]
    /\ UNCHANGED <<engineVars, isoVars, histVars, teardownVars, validateVars,
                   detectVars, backupVars, runVars, guiVars,
                   extraVars>>

NextBackend ==
    \/ \E path \in Paths, o \in MountOutcomes : backend_mount_iso(path, o)
    \/ \E path \in Paths, o \in UnmountOutcomes : backend_unmount_iso(path, o)
    \/ \E found \in BOOLEAN, o \in ToolOutcomes :
           backend_install_from_mounted(found, o)
    \/ \E outcomes \in [1 .. 3 -> ToolOutcomes] : backend_prepare_partition(outcomes)
    \/ \E written \in BOOLEAN, o \in ToolOutcomes :
           backend_configure_bootloader(written, o)
    \/ \E makedirs \in {"ok", "raise"}, o \in CreateOutcomes :
           backend_create_system_backup(makedirs, o)
    \/ \E exists \in BOOLEAN, directory \in Directories,
          extract \in {"ok", "raise"}, rcs \in [1 .. 3 -> ExitCodes] :
           backend_restore_system_backup(exists, directory, extract, rcs)

SpecBackend == Init /\ [][NextBackend]_vars

BackendOps == {"mount_iso", "unmount_iso", "install_from_mounted",
               "prepare_partition", "configure_bootloader",
               "create_system_backup", "restore_system_backup"}

C21_MountedPointsAreInTable ==
    \A i \in 1 .. Len(kernel_mounts) :
        \E p \in DOMAIN mounted_isos : mounted_isos[p] = kernel_mounts[i].mp

\* C22: no step of a run undoes a completed stage: the host's mounts, the
\* Mount Table entries and the mount-point directories only grow, no umount is
\* launched, the only backend calls of a run are its five stages, and when a
\* run whose mount succeeded returns with a failure its image is still in the
\* Mount Table and still mounted.
C22_NoCompensatingAction ==
    [][/\ IsPrefix(kernel_mounts, kernel_mounts')
       /\ DOMAIN mounted_isos \subseteq DOMAIN mounted_isos'
       /\ dirs \subseteq dirs'
       /\ tool_run' # "umount"
       /\ \A t \in Threads :
              /\ \A i \in 1 .. Len(calls'[t]) :
                     calls'[t][i].stage \in
                         {"backup", "mount", "partition", "install", "bootloader"}
              /\ (/\ pc'[t] = "returned"
                  /\ ~result'[t].success
                  /\ \E i \in 1 .. Len(calls'[t]) :
                         calls'[t][i] = [stage |-> "mount", success |-> TRUE]) =>
                     /\ req'[t].iso_path \in DOMAIN mounted_isos'
                     /\ \E i \in 1 .. Len(kernel_mounts') :
                            kernel_mounts'[i].iso = req'[t].iso_path]_vars

\* C22 witness: a run failed at the bootloader stage and returned with its
\* image still mounted.
C22_Witness ==
    \E t \in Threads :
        /\ Returned(t)
        /\ result[t].text = "Bootloader configuration failed"
        /\ req[t].iso_path \in DOMAIN mounted_isos
        /\ \E i \in 1 .. Len(kernel_mounts) : kernel_mounts[i].iso = req[t].iso_path

\* --------------------------------------------------------- SpecCommands
\* The command loops of the multi-command backend operations, for every
\* combination of exit statuses.

\* exit statuses a command can give: 0, 1, and one status above 1
ExitStatuses == {0, 1, 2}

\* a loop that runs every command and judges by the last one
RunCommandsThrough(rcs, accepted) ==
    [success |-> rcs[Len(rcs)] \in accepted, ran |-> Len(rcs)]

\* `for command in commands: result = subprocess.run(...);
\*  if <status not accepted>: return {'success': False, ...}` followed by the
\* success return: the verdict and the number of commands that were run
RunCommands(rcs, accepted) ==
    LET rejected == {i \in 1 .. Len(rcs) : rcs[i] \notin accepted}
    IN  IF rejected = {}
        THEN [success |-> TRUE, ran |-> Len(rcs)]
        ELSE [success |-> FALSE,
              ran |-> CHOOSE i \in rejected : \A j \in rejected : i <= j]

\* the test each operation applies to result.returncode
AcceptedBy(op) ==
    CASE op = "prepare_windows_partition" -> {0}     \* partition_manager.py:98
      [] op = "prepare_unix_partition" -> {0}        \* partition_manager.py:118
      [] op = "configure_windows_bootloader" -> {0}  \* bootloader_manager.py:35
      [] op = "restore_windows_backup" -> {0, 1}     \* backup_manager.py:157
      [] op = "restore_unix_backup" -> {0}           \* backup_manager.py:183

\* the number of commands in the list of each operation
CommandsOf(op) ==
    CASE op = "prepare_windows_partition" -> 2       \* partition_manager.py:88-91
      [] op = "prepare_unix_partition" -> 3          \* partition_manager.py:109-113
      [] op = "configure_windows_bootloader" -> 3    \* bootloader_manager.py:24-28
      [] op = "restore_windows_backup" -> 3          \* backup_manager.py:148-152
      [] op = "restore_unix_backup" -> 3             \* backup_manager.py:175-179

MultiCommandOps == {"prepare_windows_partition", "prepare_unix_partition",
                    "configure_windows_bootloader", "restore_windows_backup",
                    "restore_unix_backup"}

\* one of the operations runs its command list; the tools exit with rcs
run_command_sequence(op, rcs) ==
    /\ Len(rcs) = CommandsOf(op)
    /\ LET r == RunCommands(rcs, AcceptedBy(op))
       IN  command_run' = [op |-> op, rcs |-> rcs,
                           success |-> r.success, ran |-> r.ran]
    /\ UNCHANGED <<coreVars, serviceVars, installVars, prepareVars>>

NextCommands ==
    \E op \in MultiCommandOps :
        \E rcs \in [1 .. CommandsOf(op) -> ExitStatuses] :
            run_command_sequence(op, rcs)

SpecCommands == Init /\ [][NextCommands]_vars

\* C23: a multi-command operation reports success exactly when every command
\* of its list exited with an accepted status (0; for the Windows restore
\* copies 0 or 1); the commands run are those up to and including the first
\* rejected one, all of them when none is rejected.
C23_SequenceStopsAtFirstRejected ==
    command_run.op \in MultiCommandOps =>
        LET rcs == command_run.rcs
            ok(i) == IF command_run.op = "restore_windows_backup"
                     THEN rcs[i] = 0 \/ rcs[i] = 1
                     ELSE rcs[i] = 0
        IN  /\ command_run.success <=> \A i \in 1 .. Len(rcs) : ok(i)
            /\ command_run.ran \in 1 .. Len(rcs)
            /\ \A i \in 1 .. command_run.ran - 1 : ok(i)
            /\ command_run.ran < Len(rcs) => ~ok(command_run.ran)

\* C23 witness: the Windows restore went through a copy that exited 1 and
\* stopped at the next copy, which exited 2, without running the third.
C23_Witness ==
    /\ command_run.op = "restore_windows_backup"
    /\ command_run.rcs = <<1, 2, 0>>
    /\ ~command_run.success
    /\ command_run.ran = 2

\* C25 (as claimed): for the classified tree and each family, when no file
\* name matches a pattern of the family and none of its marker directories
\* exists under the mount point, the family's signatures match exactly when
\* some file of the tree is named as one of its marker files.
C25_MarkerFileNameExact ==
    os_info.called =>
        \A i \in 1 .. Len(os_signatures) :
            LET signatures == os_signatures[i]
                by_pattern ==
                    \E k \in 1 .. Len(signatures.patterns) :
                        search_in_directory(mounted_tree, signatures.patterns[k], TRUE)
                by_directory ==
                    \E k \in 1 .. Len(signatures.directories) :
                        PathExists(mounted_tree, signatures.directories[k])
                exact_name ==
                    \E file \in WalkFiles(mounted_tree) :
                        \E k \in 1 .. Len(signatures.files) :
                            file = signatures.files[k]
            IN  (~by_pattern /\ ~by_directory) =>
                    (matches_signatures(mounted_tree, signatures) <=> exact_name)

\* ---------------------------------------------------------- SpecInstall
\* install_from_mounted applied to every set of entries under the mount
\* point and every outcome of the installer process.

\* names that can sit directly under a mount point
EntryNames == {"setup.exe", "install.exe", "autorun.exe", "install.sh",
               "setup.sh", "installer", "SETUP.EXE", "readme.txt"}

\* a caller invokes IsoManager.install_from_mounted (iso_manager.py:148); the
\* processes launched are logged in launch order
call_install_from_mounted(outcome) ==
    /\ LET install_script == find_install_script(mount_entries)
           found == install_script # None
       IN  install_call' =
               [called |-> TRUE,
                launched |-> IF found THEN <<install_script>> ELSE <<>>,
                result |-> install_from_mounted_result(found, outcome)]
    /\ UNCHANGED <<coreVars, serviceVars, commandVars, mount_entries, prepareVars>>

InitInstall ==
    /\ InitPipeline
    /\ InitTeardown
    /\ InitValidation
    /\ InitDetection
    /\ InitBackup
    /\ InitBackend
    /\ InitCommands
    /\ InitPreparation
    /\ mount_entries \in SUBSET EntryNames
    /\ install_call = NoInstallCall

NextInstall == \E o \in ToolOutcomes : call_install_from_mounted(o)

SpecInstall == InitInstall /\ [][NextInstall]_vars

\* C24: install_from_mounted launches exactly one process, for the first of
\* setup.exe, install.exe, autorun.exe, install.sh, setup.sh, installer that
\* exists under the mount point; when none exists it launches nothing and
\* returns failure 'No installation script found'.
C24_FirstCandidateOnly ==
    install_call.called =>
        LET has(name) == name \in mount_entries
            first ==
                IF has("setup.exe") THEN "setup.exe"
                ELSE IF has("install.exe") THEN "install.exe"
                ELSE IF has("autorun.exe") THEN "autorun.exe"
                ELSE IF has("install.sh") THEN "install.sh"
                ELSE IF has("setup.sh") THEN "setup.sh"
                ELSE IF has("installer") THEN "installer"
                ELSE "none"
        IN  IF first = "none"
            THEN /\ install_call.launched = <<>>
                 /\ install_call.result =
                        [success |-> FALSE, error |-> "No installation script found"]
            ELSE install_call.launched = <<first>>

\* C24 witness: install.sh and installer both exist (and an upper-case
\* SETUP.EXE that is no candidate), and install.sh was the one launched.
C24_Witness ==
    /\ install_call.called
    /\ mount_entries = {"install.sh", "installer", "SETUP.EXE"}
    /\ install_call.launched = <<"install.sh">>

\* stage of run t is behind it: it returned success, or it is the backup stage
\* of a run without preserve_data
StageDone(t, stage) ==
    \/ Succeeded(t, stage)
    \/ stage = "backup" /\ ~req[t].preserve_data

\* C27: while a run is inside execute_os_switch, operation_progress is one of
\* 0, 20, 40, 60, 80, 100, and when it is 20*k the first k of backup, mount,
\* partition preparation, installation, bootloader are behind the run.
C27_ProgressCountsCompletedStages ==
    \A t \in Threads :
        Inside(t) =>
            /\ operation_progress \in {0, 20, 40, 60, 80, 100}
            /\ \A k \in 1 .. 5 :
                   operation_progress = 20 * k =>
                       \A j \in 1 .. k :
                           StageDone(t, <<"backup", "mount", "partition",
                                          "install", "bootloader">>[j])

\* C27 witness: a run without backup stands at 80 before the bootloader stage.
C27_Witness ==
    \E t \in Threads :
        /\ pc[t] = "bootloader"
        /\ operation_progress = 80
        /\ ~req[t].preserve_data

\* ------------------------------------------------------------- SpecLive
\* Spec with the scheduling of the worker threads: a thread that is inside
\* execute_os_switch keeps running, and each tool it waits for terminates.

\* one step of the run of thread t inside execute_os_switch
EngineStep(t) ==
    \/ execute_os_switch_enter(t)
    \/ execute_os_switch_progress(t)
    \/ execute_os_switch_backup(t)
    \/ execute_os_switch_mount(t)
    \/ execute_os_switch_partition(t)
    \/ execute_os_switch_install(t)
    \/ execute_os_switch_bootloader(t)
    \/ execute_os_switch_finally_operation(t)
    \/ execute_os_switch_finally_progress(t)

SpecLive == Spec /\ \A t \in Threads : WF_vars(EngineStep(t))

\* C30: a run that has entered execute_os_switch eventually returns; when it
\* does, each of the five stages was invoked at most once, current_operation
\* is None and operation_progress is 0.
C30_RunReturnsAndEngineIdles ==
    \A t \in Threads :
        Inside(t) ~>
            /\ Returned(t)
            /\ \A stage \in {"backup", "mount", "partition", "install", "bootloader"} :
                   Cardinality({i \in 1 .. Len(calls[t]) :
                                   calls[t][i].stage = stage}) <= 1
            /\ current_operation = None
            /\ operation_progress = 0

\* C30 witness: a run has returned after invoking all five stages.
C30_Witness ==
    \E t \in Threads :
        /\ Returned(t)
        /\ Len(calls[t]) = 5
        /\ current_operation = None /\ operation_progress = 0

\* ------------------------------------------------------- SpecConcurrent
\* Callers that invoke NexusEngine.execute_os_switch directly, each on its own
\* thread, with nothing between them but the engine object.

\* a thread calls engine.execute_os_switch(iso_path, target_partition,
\* preserve_data) (nexus_engine.py:48); the lowest idle thread is taken
direct_call(t, iso_path, target_partition, preserve_data) ==
    /\ pc[t] = "none"
    /\ \A u \in Threads : u < t => pc[u] # "none"
    /\ req' = [req EXCEPT ![t] = [iso_path |-> iso_path,
                                  target_partition |-> target_partition,
                                  preserve_data |-> preserve_data]]
    /\ Goto(t, "enter")
    /\ UNCHANGED <<engineVars, isoVars, histVars, auxVars, result, mount_result,
                   calls, progLog, emitted, guiVars>>

\* the caller has its result; the activation is over
direct_return(t) ==
    /\ pc[t] = "returned"
    /\ Goto(t, "none")
    /\ req' = [req EXCEPT ![t] = NoRequest]
    /\ result' = [result EXCEPT ![t] = NoResult]
    /\ mount_result' = [mount_result EXCEPT ![t] = NoMount]
    /\ calls' = [calls EXCEPT ![t] = <<>>]
    /\ progLog' = [progLog EXCEPT ![t] = <<>>]
    /\ UNCHANGED <<engineVars, isoVars, histVars, auxVars, emitted, guiVars>>

NextConcurrent ==
    \/ \E t \in Threads, path \in Images, part \in Partitions, keep \in BOOLEAN :
           direct_call(t, path, part, keep)
    \/ \E t \in Threads : execute_os_switch_enter(t)
    \/ \E t \in Threads : execute_os_switch_progress(t)
    \/ \E t \in Threads : execute_os_switch_backup(t)
    \/ \E t \in Threads : execute_os_switch_mount(t)
    \/ \E t \in Threads : execute_os_switch_partition(t)
    \/ \E t \in Threads : execute_os_switch_install(t)
    \/ \E t \in Threads : execute_os_switch_bootloader(t)
    \/ \E t \in Threads : execute_os_switch_finally_operation(t)
    \/ \E t \in Threads : execute_os_switch_finally_progress(t)
    \/ \E t \in Threads : direct_return(t)

SpecConcurrent == Init /\ [][NextConcurrent]_vars

\* run t is past the assignment of line 51 and has not reached its finally
\* block
InBody(t) == pc[t] \in SetLocs \cup {"backup", "mount", "partition", "install",
                                     "bootloader"}

\* C28 (as claimed): while some run is in the body of execute_os_switch,
\* get_operation_status reports current_operation 'os_switch'.
C28_StatusCoversOverlappingRuns ==
    (\E t \in Threads : InBody(t)) =>
        get_operation_status.current_operation = "os_switch"

\* ---------------------------------------------------------- SpecPrepare
\* NexusEngine.prepare_target_os and OsDetector.extract_os_info, step by step.

\* the files callers pass
PrepFiles == {FileOf(path) : path \in Paths \cup {"missing.iso"}}

\* the trees an analysed image can show
AnalysisTrees == {tr \in Trees : Cardinality(tr) <= 1}

Event(ev, mp, ok) == [ev |-> ev, mp |-> mp, ok |-> ok]

\* the local mount_point of extract_os_info: that of the mount event
MountPointOf(log) ==
    (CHOOSE e \in {log[i] : i \in 1 .. Len(log)} : e.ev = "mount").mp

\* the call returns: prepare_target_os wraps os_info (nexus_engine.py:40),
\* extract_os_info hands back os_info itself (os_detector.py:228), kept here
\* in the os_info field with the two other fields derived from it
Finish(info) ==
    /\ prep_pc' = "idle"
    /\ prep_result' =
          IF prep_entry = "prepare_target_os"
          THEN [success |-> TRUE, error |-> None, os_info |-> info]
          ELSE [success |-> info.error = None, error |-> info.error,
                os_info |-> info]

\* prepare_target_os that goes on to extract_os_info whatever validate_iso said
call_prepare_target_os_ungated(f) ==
    /\ prep_pc = "idle"
    /\ temp_dirs < MaxTempDirs
    /\ LET validation_result == validate_iso_file(f)
       IN  /\ prep_log' = <<Event("validate", -1, validation_result.valid)>>
           /\ prep_pc' = "mount"
           /\ prep_result' = NoPrepResult
    /\ prep_entry' = "prepare_target_os"
    /\ prep_file' = f
    /\ UNCHANGED <<coreVars, serviceVars, commandVars, installVars, temp_dirs,
                   temp_mounts>>

\* nexus_engine.py:34-38  prepare_target_os up to the call of extract_os_info
call_prepare_target_os(f) ==
    /\ prep_pc = "idle"
    /\ temp_dirs < MaxTempDirs
    /\ LET validation_result == validate_iso_file(f)
       IN  /\ prep_log' = <<Event("validate", -1, validation_result.valid)>>
           /\ IF ~validation_result.valid
              THEN /\ prep_pc' = "idle"
                   /\ prep_result' = [success |-> FALSE,
                                      error |-> validation_result.error,
                                      os_info |-> NoOsInfo]
              ELSE /\ prep_pc' = "mount"
                   /\ prep_result' = NoPrepResult
    /\ prep_entry' = "prepare_target_os"
    /\ prep_file' = f
    /\ UNCHANGED <<coreVars, serviceVars, commandVars, installVars, temp_dirs,
                   temp_mounts>>

\* a caller invokes OsDetector.extract_os_info (os_detector.py:219)
call_extract_os_info(f) ==
    /\ prep_pc = "idle"
    /\ temp_dirs < MaxTempDirs
    /\ prep_entry' = "extract_os_info"
    /\ prep_file' = f
    /\ prep_log' = <<>>
    /\ prep_pc' = "mount"
    /\ prep_result' = NoPrepResult
    /\ UNCHANGED <<coreVars, serviceVars, commandVars, installVars, temp_dirs,
                   temp_mounts>>

\* os_detector.py:221-223 with 233-254  mkdtemp, then the mount tool; a file
\* that does not exist cannot be mounted
mount_iso_temporarily(outcome) ==
    /\ prep_pc = "mount"
    /\ outcome = "rc0" => prep_file.exists
    /\ LET mount_point == temp_dirs + 1
       IN  /\ temp_dirs' = mount_point
           /\ IF outcome = "rc0"
              THEN /\ prep_log' = Append(prep_log, Event("mount", mount_point, TRUE))
                   /\ temp_mounts' = temp_mounts \cup {mount_point}
                   /\ prep_pc' = "analyze"
                   /\ UNCHANGED prep_result
              ELSE /\ prep_log' = Append(prep_log, Event("mount", mount_point, FALSE))
                   /\ UNCHANGED temp_mounts
                   /\ Finish([type |-> None, error |-> "Failed to mount ISO"])
    /\ UNCHANGED <<coreVars, serviceVars, commandVars, installVars, prep_entry,
                   prep_file>>

\* an extract_os_info that returns the error of a failed analysis at once
analyze_mounted_leaky(tr, raised) ==
    /\ prep_pc = "analyze"
    /\ prep_log' = Append(prep_log, Event("analyze", MountPointOf(prep_log), ~raised))
    /\ IF raised
       THEN Finish([type |-> None, error |-> "str(e)"])
       ELSE /\ prep_result' = [prep_result EXCEPT !.os_info =
                                  [type |-> analyze_mounted_iso(tr).type,
                                   error |-> None]]
            /\ prep_pc' = "unmount"
    /\ UNCHANGED <<coreVars, serviceVars, commandVars, installVars, prep_entry,
                   prep_file, temp_dirs, temp_mounts>>

\* os_detector.py:225 with 274-292  the analysis of the mounted tree; an
\* exception inside it comes back as {'error': str(e)}
analyze_mounted(tr, raised) ==
    /\ prep_pc = "analyze"
    /\ prep_log' = Append(prep_log, Event("analyze", MountPointOf(prep_log), ~raised))
    /\ prep_result' = [prep_result EXCEPT !.os_info =
                          IF raised THEN [type |-> None, error |-> "str(e)"]
                          ELSE [type |-> analyze_mounted_iso(tr).type,
                                error |-> None]]
    /\ prep_pc' = "unmount"
    /\ UNCHANGED <<coreVars, serviceVars, commandVars, installVars, prep_entry,
                   prep_file, temp_dirs, temp_mounts>>

\* os_detector.py:226-228 with 256-272  the umount tool (its result is not
\* looked at), rmtree, and the return of os_info
unmount_iso_temporarily(outcome) ==
    /\ prep_pc = "unmount"
    /\ LET mount_point == MountPointOf(prep_log)
       IN  /\ prep_log' = Append(prep_log,
                                 Event("unmount", mount_point, outcome = "rc0"))
           /\ temp_mounts' = IF outcome = "rc0"
                             THEN temp_mounts \ {mount_point}
                             ELSE temp_mounts
    /\ Finish(prep_result.os_info)
    /\ UNCHANGED <<coreVars, serviceVars, commandVars, installVars, prep_entry,
                   prep_file, temp_dirs>>

NextPrepare ==
    \/ \E f \in PrepFiles : call_prepare_target_os(f)
    \/ \E f \in PrepFiles : call_extract_os_info(f)
    \/ \E o \in ToolOutcomes : mount_iso_temporarily(o)
    \/ \E tr \in AnalysisTrees, raised \in BOOLEAN : analyze_mounted(tr, raised)
    \/ \E o \in ToolOutcomes : unmount_iso_temporarily(o)

SpecPrepare == Init /\ [][NextPrepare]_vars

\* the events of the given kind in the log of the current or latest call
EventsOf(ev) == {i \in 1 .. Len(prep_log) : prep_log[i].ev = ev}

\* the latest call has returned
PrepReturned == prep_pc = "idle" /\ prep_entry # None

\* C26: in a prepare_target_os call a mount is attempted only after
\* validate_iso answered valid=True; a call for an image that fails
\* validation returns success=False with the error of the validation and
\* has attempted no mount, analysis or unmount.
C26_ValidationGatesClassification ==
    prep_entry = "prepare_target_os" =>
        LET validation_result == validate_iso_file(prep_file)
        IN  /\ EventsOf("mount") # {} =>
                   /\ validation_result.valid
                   /\ prep_log[1] = Event("validate", -1, TRUE)
            /\ (PrepReturned /\ ~validation_result.valid) =>
                   /\ prep_log = <<Event("validate", -1, FALSE)>>
                   /\ ~prep_result.success
                   /\ prep_result.error = validation_result.error
                   /\ prep_result.error # None

\* C26 witness: prepare_target_os was called for an image of sufficient size
\* without a valid header and returned the 'Invalid ISO structure' error.
C26_Witness ==
    /\ prep_entry = "prepare_target_os"
    /\ PrepReturned
    /\ prep_file = FileOf("junk.iso")
    /\ prep_result.error = "Invalid ISO structure"
    /\ temp_dirs = 0

\* C29: a call whose temporary mount succeeded makes, before it returns,
\* exactly one unmount, of the mount point of that mount and after the
\* analysis, whatever the analysis gave; at no time is there more than one
\* unmount or an unmount without a successful mount; a call whose mount
\* failed makes no analysis and no unmount and returns 'Failed to mount ISO'.
C29_TemporaryMountAlwaysUnmounted ==
    LET mounts == EventsOf("mount")
        unmounts == EventsOf("unmount")
        analyses == EventsOf("analyze")
    IN  /\ Cardinality(mounts) <= 1
        /\ Cardinality(unmounts) <= 1
        /\ \A u \in unmounts :
               \E m \in mounts, a \in analyses :
                   /\ m < a /\ a < u
                   /\ prep_log[m].ok
                   /\ prep_log[u].mp = prep_log[m].mp
        /\ PrepReturned =>
               \A m \in mounts :
                   IF prep_log[m].ok
                   THEN Cardinality(unmounts) = 1 /\ Cardinality(analyses) = 1
                   ELSE /\ unmounts = {} /\ analyses = {}
                        /\ prep_result.os_info.error = "Failed to mount ISO"

\* C29 witness: the analysis of a mounted image raised, and the call has
\* returned after unmounting.
C29_Witness ==
    /\ PrepReturned
    /\ prep_result.os_info.error = "str(e)"
    /\ EventsOf("unmount") # {}

====
